---- MODULE Spec2Model ----
(***************************************************************************)
(* A model of SecurityValidators                                           *)
(* (src/src/core/schema/mode/interfaces/validators/mods/securityValidator.ts)*)
(*                                                                         *)
(* JavaScript values are records [t, s, n]: t is the typeof tag ("null"    *)
(* and "array" kept apart as the code tells them apart), s the characters  *)
(* of a string (one-character strings; for JSON text and IP literals the   *)
(* lexical tokens), n a number or the identity of an object in the heap.   *)
(* A ValidationResult is [success, errors, warnings, data]; the model adds *)
(* the history field ran: the checks the call evaluated, in order, each    *)
(* with whether it recorded an error.                                      *)
(***************************************************************************)
EXTENDS Integers, Sequences, FiniteSets, TLC

VARIABLES pc, op, input, heap, opts, outcome, result, cache, metrics, batch,
          awaiting

vars == <<pc, op, input, heap, opts, outcome, result, cache, metrics, batch,
          awaiting>>

(***************************************************************************)
(* Bounds of the model.                                                    *)
(***************************************************************************)
MaxLen == 2
MaxLocal == 2
MaxDomain == 4
MaxNodes == 2
MaxBatch == 3
MaxCache == 2
MaxMetered == 2
MaxWindows == 4

(***************************************************************************)
(* Values.                                                                 *)
(***************************************************************************)
Str(s) == [t |-> "string", s |-> s, n |-> 0]
Num(k) == [t |-> "number", s |-> <<>>, n |-> k]
Null == [t |-> "null", s |-> <<>>, n |-> 0]
Undefined == [t |-> "undefined", s |-> <<>>, n |-> 0]
Ref(id) == [t |-> "object", s |-> <<>>, n |-> id]

\* a === b on two values
ValEq(a, b) == a.t = b.t /\ a.n = b.n /\ a.s = b.s

NoHeap == <<>>

\* All sequences over S of length at most k.
RECURSIVE SeqsUpTo(_, _)
SeqsUpTo(S, k) ==
  IF k = 0 THEN {<<>>}
  ELSE LET shorter == SeqsUpTo(S, k - 1)
       IN shorter \cup {Append(q, c) : q \in shorter, c \in S}

\* String.prototype.includes
Includes(text, needle) ==
  \E i \in 0..(Len(text) - Len(needle)) :
     \A j \in 1..Len(needle) : text[i + j] = needle[j]

StartsWith(text, c) == Len(text) > 0 /\ text[1] = c
EndsWith(text, c) == Len(text) > 0 /\ text[Len(text)] = c

\* the value of body on the value of x, x being computed once
Given(x, body(_)) == CHOOSE r \in {body(v) : v \in {x}} : TRUE

(***************************************************************************)
(* Results and errors.                                                     *)
(***************************************************************************)
Err(code, msg) == [code |-> code, message |-> msg]

\* The fresh result of a call, with the scan position of the pipeline.
NewResult(value) ==
  [success |-> TRUE, errors |-> <<>>, warnings |-> <<>>, data |-> value,
   text |-> <<>>, parsed |-> value, heap |-> <<>>, stop |-> FALSE,
   ran |-> <<>>, regex |-> <<>>]

Ran(st, check, failed) == Append(st.ran, [check |-> check, failed |-> failed])

\* result.success = false; result.errors.push(e); return result
FailStop(st, check, e) ==
  [st EXCEPT !.success = FALSE, !.errors = Append(@, e), !.stop = TRUE,
             !.ran = Ran(st, check, TRUE)]

\* result.success = false; result.errors.push(e)
Fail(st, check, e) ==
  [st EXCEPT !.success = FALSE, !.errors = Append(@, e),
             !.ran = Ran(st, check, TRUE)]

\* the check passed
Pass(st, check) == [st EXCEPT !.ran = Ran(st, check, FALSE)]

\* result.warnings.push(w)
Warn(st, check, w) ==
  [st EXCEPT !.warnings = Append(@, w), !.ran = Ran(st, check, FALSE)]

\* the final "return result" of a validator
Finish(st) ==
  [success |-> st.success, errors |-> st.errors, warnings |-> st.warnings,
   data |-> st.data,
   ran |-> IF st.stop THEN st.ran ELSE Ran(st, "end", FALSE)]

\* no result: the call has not returned one
NoResult == [success |-> TRUE, errors |-> <<>>, warnings |-> <<>>,
             data |-> Undefined, ran |-> <<>>]

(***************************************************************************)
(* Characters of the text validator.                                       *)
(***************************************************************************)
WhitespaceChars == {" ", "\n"}
NonAsciiChars == {"U+00E9", "U+0301"}
ControlChars == {"U+0000", "U+0001"}
LetterChars == {"a", "e", "j", "v", "s", "c", "r", "i", "p", "t", "d", "x",
                "h", "m", "l", "f", "k", "n", "o", "y", "b", "A", "F"}
DigitChars == {"0", "1", "2", "3", "4", "5", "6", "7", "8", "9"}
AlnumChars == LetterChars \cup DigitChars

\* The /[...]/ classes standing for SECURITY_CONSTANTS.*_PATTERNS.
XSS_PATTERNS == {"<"}
SQL_PATTERNS == {"'"}
LDAP_PATTERNS == {"("}
COMMAND_INJECTION_PATTERNS == {";"}
MAX_TEXT_LENGTH == 1000000
Infinity == 1000000000

JavascriptScheme == <<"j", "a", "v", "a", "s", "c", "r", "i", "p", "t", ":">>
DataHtmlScheme == <<"d", "a", "t", "a", ":", "t", "e", "x", "t", "/", "h",
                    "t", "m", "l">>

\* String.prototype.trim
RECURSIVE TrimStart(_)
TrimStart(s) ==
  IF s # <<>> /\ Head(s) \in WhitespaceChars THEN TrimStart(Tail(s)) ELSE s

RECURSIVE TrimEnd(_)
TrimEnd(s) ==
  IF s # <<>> /\ s[Len(s)] \in WhitespaceChars
  THEN TrimEnd(SubSeq(s, 1, Len(s) - 1)) ELSE s

Trim(s) == TrimEnd(TrimStart(s))

\* String.prototype.normalize("NFC"): e + combining acute composes.
RECURSIVE NormalizeNFC(_)
NormalizeNFC(s) ==
  IF Len(s) < 2 THEN s
  ELSE IF s[1] = "e" /\ s[2] = "U+0301"
       THEN <<"U+00E9">> \o NormalizeNFC(SubSeq(s, 3, Len(s)))
       ELSE <<s[1]>> \o NormalizeNFC(Tail(s))

AnyChar(text, class) == \E i \in 1..Len(text) : text[i] \in class
AllChars(text, class) == \A i \in 1..Len(text) : text[i] \in class

\* text.split("\n").length
LineCount(text) == Cardinality({i \in 1..Len(text) : text[i] = "\n"}) + 1

\* The option patterns are RegExp objects [kind, chars, global, lastIndex]:
\* "all" is /^[chars]*$/ and "any" is /[chars]/; a pattern with the g flag
\* starts its search at lastIndex and keeps the end of its last match there.
Pattern(kind, chars) ==
  [kind |-> kind, chars |-> chars, global |-> FALSE, lastIndex |-> 0]

GlobalPattern(kind, chars) ==
  [kind |-> kind, chars |-> chars, global |-> TRUE, lastIndex |-> 0]

RegexStart(pattern) == IF pattern.global THEN pattern.lastIndex ELSE 0

\* the pattern that forgets its match position
RegexTestFromStart(pattern, text) ==
  IF pattern.kind = "all" THEN AllChars(text, pattern.chars)
  ELSE AnyChar(text, pattern.chars)

\* RegExp.prototype.test(text)
RegexTest(pattern, text) ==
  IF pattern.kind = "all"
  THEN RegexStart(pattern) = 0 /\ AllChars(text, pattern.chars)
  ELSE \E i \in (RegexStart(pattern) + 1)..Len(text) : text[i] \in pattern.chars

\* the pattern object after test(text): lastIndex is the end of the match,
\* or 0 when there was none
RegexAfter(pattern, text) ==
  IF ~pattern.global THEN pattern
  ELSE IF ~RegexTest(pattern, text) THEN [pattern EXCEPT !.lastIndex = 0]
  ELSE IF pattern.kind = "all" THEN [pattern EXCEPT !.lastIndex = Len(text)]
  ELSE [pattern EXCEPT !.lastIndex =
          CHOOSE i \in (pattern.lastIndex + 1)..Len(text) :
            /\ text[i] \in pattern.chars
            /\ \A j \in (pattern.lastIndex + 1)..(i - 1) :
                 text[j] \notin pattern.chars]

\* the patterns after the loop that tests them in turn and breaks at the
\* first match
ForbiddenAfter(patterns, text) ==
  [i \in 1..Len(patterns) |->
     IF \E j \in 1..(i - 1) : RegexTest(patterns[j], text)
     THEN patterns[i] ELSE RegexAfter(patterns[i], text)]

NoPattern == [kind |-> "none", chars |-> {}, global |-> FALSE, lastIndex |-> 0]

(***************************************************************************)
(* validateTextSync: one operator per check, in the order of the code.     *)
(* Every check is skipped once an earlier one has returned (st.stop).      *)
(***************************************************************************)
TextTypeCheck(st, value) ==
  IF value.t # "string"
  THEN FailStop(st, "type", Err("TYPE_ERROR", "Expected string"))
  ELSE [Pass(st, "type") EXCEPT !.text = value.s]

\* the size guard without its return statement
TextMaxLengthAccumulating(st, o) ==
  IF st.stop THEN st
  ELSE IF Len(st.text) > o.maxLength
       THEN Fail(st, "maxLength",
                 Err("STRING_TOO_LONG", "Text exceeds maximum length"))
       ELSE Pass(st, "maxLength")

TextMaxLength(st, o) ==
  IF st.stop THEN st
  ELSE IF Len(st.text) > o.maxLength
       THEN FailStop(st, "maxLength",
                     Err("STRING_TOO_LONG", "Text exceeds maximum length"))
       ELSE Pass(st, "maxLength")

TextTrim(st, o) ==
  IF st.stop THEN st
  ELSE IF o.trimWhitespace /\ Trim(st.text) # st.text
       THEN [Warn(st, "trim", "Whitespace trimmed from text")
               EXCEPT !.text = Trim(st.text), !.data = Str(Trim(st.text))]
       ELSE Pass(st, "trim")

TextNormalize(st, o) ==
  IF st.stop THEN st
  ELSE IF o.normalizeUnicode /\ NormalizeNFC(st.text) # st.text
       THEN [Warn(st, "normalize", "Unicode characters normalized")
               EXCEPT !.text = NormalizeNFC(st.text),
                      !.data = Str(NormalizeNFC(st.text))]
       ELSE Pass(st, "normalize")

TextEmpty(st, o) ==
  IF st.stop THEN st
  ELSE IF ~o.allowEmpty /\ Len(st.text) = 0
       THEN FailStop(st, "empty",
                     Err("STRING_TOO_SHORT", "Text cannot be empty"))
       ELSE Pass(st, "empty")

\* the minimum-length check returning at once
TextMinLengthReturning(st, o) ==
  IF st.stop THEN st
  ELSE IF Len(st.text) < o.minLength
       THEN FailStop(st, "minLength",
                     Err("STRING_TOO_SHORT", "Text must be at least minLength characters long"))
       ELSE Pass(st, "minLength")

TextMinLength(st, o) ==
  IF st.stop THEN st
  ELSE IF Len(st.text) < o.minLength
       THEN Fail(st, "minLength",
                 Err("STRING_TOO_SHORT", "Text must be at least minLength characters long"))
       ELSE Pass(st, "minLength")

TextMaxLines(st, o) ==
  IF st.stop THEN st
  ELSE IF o.maxLines # Infinity /\ LineCount(st.text) > o.maxLines
       THEN Fail(st, "maxLines",
                 Err("STRING_TOO_LONG", "Text cannot exceed maxLines lines"))
       ELSE Pass(st, "maxLines")

TextEncoding(st, o) ==
  IF st.stop THEN st
  ELSE IF o.encoding = "ascii" /\ AnyChar(st.text, NonAsciiChars)
       THEN Fail(st, "encoding",
                 Err("INVALID_STRING_FORMAT", "Text contains non-ASCII characters"))
       ELSE Pass(st, "encoding")

TextAlphanumeric(st, o) ==
  IF st.stop THEN st
  ELSE IF o.requireAlphanumeric
          /\ ~AllChars(st.text, AlnumChars \cup WhitespaceChars)
       THEN Fail(st, "alphanumeric",
                 Err("INVALID_STRING_FORMAT",
                     "Text must contain only alphanumeric characters and spaces"))
       ELSE Pass(st, "alphanumeric")

TextAllowedCharacters(st, o) ==
  IF st.stop THEN st
  ELSE IF o.allowedCharacters # NoPattern
          /\ ~RegexTest(o.allowedCharacters, st.text)
       THEN [Fail(st, "allowedCharacters",
                  Err("INVALID_STRING_FORMAT", "Text contains disallowed characters"))
               EXCEPT !.regex = <<RegexAfter(o.allowedCharacters, st.text)>>]
       ELSE [Pass(st, "allowedCharacters")
               EXCEPT !.regex = <<RegexAfter(o.allowedCharacters, st.text)>>]

\* the loop breaks at the first pattern that matches: one error at most
TextForbiddenPatterns(st, o) ==
  IF st.stop THEN st
  ELSE IF \E i \in 1..Len(o.forbiddenPatterns) :
             RegexTest(o.forbiddenPatterns[i], st.text)
       THEN [Fail(st, "forbiddenPatterns",
                  Err("PATTERN_MISMATCH", "Text contains forbidden pattern"))
               EXCEPT !.regex =
                        Append(@, ForbiddenAfter(o.forbiddenPatterns, st.text))]
       ELSE [Pass(st, "forbiddenPatterns")
               EXCEPT !.regex =
                        Append(@, ForbiddenAfter(o.forbiddenPatterns, st.text))]

TextXssPatterns(st, o) ==
  IF st.stop THEN st
  ELSE IF o.preventXSS /\ ~o.allowHTML /\ AnyChar(st.text, XSS_PATTERNS)
       THEN Fail(st, "xssPatterns",
                 Err("INVALID_STRING_FORMAT",
                     "Text contains potentially malicious content (XSS)"))
       ELSE Pass(st, "xssPatterns")

TextUriScheme(st, o) ==
  IF st.stop THEN st
  ELSE IF o.preventXSS /\ ~o.allowHTML
          /\ (Includes(st.text, JavascriptScheme)
              \/ Includes(st.text, DataHtmlScheme))
       THEN Fail(st, "uriScheme",
                 Err("INVALID_STRING_FORMAT", "Text contains dangerous URI schemes"))
       ELSE Pass(st, "uriScheme")

\* the SQL check treated as fatal
TextSqlFatal(st, o) ==
  IF st.stop THEN st
  ELSE IF o.preventSQLInjection /\ AnyChar(st.text, SQL_PATTERNS)
       THEN Fail(st, "sql",
                 Err("SECURITY_VIOLATION", "Text contains SQL-like patterns"))
       ELSE Pass(st, "sql")

TextSql(st, o) ==
  IF st.stop THEN st
  ELSE IF o.preventSQLInjection /\ AnyChar(st.text, SQL_PATTERNS)
       THEN Warn(st, "sql", "Text contains SQL-like patterns")
       ELSE Pass(st, "sql")

TextLdap(st, o) ==
  IF st.stop THEN st
  ELSE IF o.preventLDAPInjection /\ AnyChar(st.text, LDAP_PATTERNS)
       THEN Fail(st, "ldap",
                 Err("INVALID_STRING_FORMAT", "Text contains LDAP injection patterns"))
       ELSE Pass(st, "ldap")

TextCommand(st, o) ==
  IF st.stop THEN st
  ELSE IF o.preventCommandInjection
          /\ AnyChar(st.text, COMMAND_INJECTION_PATTERNS)
       THEN Fail(st, "command",
                 Err("INVALID_STRING_FORMAT",
                     "Text contains command injection patterns"))
       ELSE Pass(st, "command")

TextControl(st, o) ==
  IF st.stop THEN st
  ELSE IF AnyChar(st.text, ControlChars)
       THEN Warn(st, "control", "Text contains control characters")
       ELSE Pass(st, "control")

TextNullByte(st, o) ==
  IF st.stop THEN st
  ELSE IF Includes(st.text, <<"U+0000">>)
       THEN Fail(st, "nullByte",
                 Err("INVALID_STRING_FORMAT", "Text contains null bytes"))
       ELSE Pass(st, "nullByte")

\* the stages with the XSS patterns tried before the forbidden-pattern list
validateTextSyncXssFirst(value, o) ==
  Finish(TextNullByte(TextControl(TextCommand(TextLdap(TextSql(TextUriScheme(
    TextForbiddenPatterns(TextXssPatterns(TextAllowedCharacters(
    TextAlphanumeric(TextEncoding(TextMaxLines(TextMinLength(TextEmpty(
    TextNormalize(TextTrim(TextMaxLength(TextTypeCheck(NewResult(value), value),
    o), o), o), o), o), o), o), o), o), o), o), o), o), o), o), o), o))

\* the run of validateTextSync up to its return statement
validateTextSyncRun(value, o) ==
  LET s1 == TextTypeCheck(NewResult(value), value)
      s2 == TextMaxLength(s1, o)
      s3 == TextTrim(s2, o)
      s4 == TextNormalize(s3, o)
      s5 == TextEmpty(s4, o)
      s6 == TextMinLength(s5, o)
      s7 == TextMaxLines(s6, o)
      s8 == TextEncoding(s7, o)
      s9 == TextAlphanumeric(s8, o)
      s10 == TextAllowedCharacters(s9, o)
      s11 == TextForbiddenPatterns(s10, o)
      s12 == TextXssPatterns(s11, o)
      s13 == TextUriScheme(s12, o)
      s14 == TextSql(s13, o)
      s15 == TextLdap(s14, o)
      s16 == TextCommand(s15, o)
      s17 == TextControl(s16, o)
      s18 == TextNullByte(s17, o)
  IN s18

validateTextSync(value, o) == Finish(validateTextSyncRun(value, o))

\* the caller's options record after the call: the pattern objects that
\* were tested carry their new lastIndex
TextOptionsAfter(value, o) ==
  Given(validateTextSyncRun(value, o).regex, LAMBDA regex :
    IF Len(regex) = 2
    THEN [o EXCEPT !.allowedCharacters = regex[1], !.forbiddenPatterns = regex[2]]
    ELSE o)

\* The defaults of validateTextSync's option destructuring.
TextDefaults ==
  [minLength |-> 0, maxLength |-> MAX_TEXT_LENGTH, allowEmpty |-> TRUE,
   trimWhitespace |-> FALSE, allowedCharacters |-> NoPattern,
   forbiddenPatterns |-> <<>>, encoding |-> "utf8", preventXSS |-> TRUE,
   preventSQLInjection |-> TRUE, preventLDAPInjection |-> FALSE,
   preventCommandInjection |-> FALSE, normalizeUnicode |-> FALSE,
   maxLines |-> Infinity, requireAlphanumeric |-> FALSE, allowHTML |-> FALSE,
   enableMetrics |-> FALSE]


(***************************************************************************)
(* validateEmail                                                           *)
(***************************************************************************)
\* String.prototype.toLowerCase ("A" is the upper-case letter of the model)
ToLowerCase(s) ==
  [i \in 1..Len(s) |->
     CASE s[i] = "A" -> "a" [] s[i] = "B" -> "b" [] s[i] = "C" -> "c"
       [] s[i] = "D" -> "d" [] s[i] = "E" -> "e" [] s[i] = "F" -> "f"
       [] OTHER -> s[i]]

\* String.prototype.indexOf(sep) + 1
IndexOf(s, sep) ==
  LET at == {i \in 1..Len(s) : s[i] = sep}
  IN IF at = {} THEN 0 ELSE CHOOSE i \in at : \A j \in at : i <= j

\* String.prototype.split(sep)
RECURSIVE Split(_, _)
Split(s, sep) ==
  LET k == IndexOf(s, sep)
  IN IF k = 0 THEN <<s>>
     ELSE <<SubSeq(s, 1, k - 1)>> \o Split(SubSeq(s, k + 1, Len(s)), sep)

CountChar(s, c) == Cardinality({i \in 1..Len(s) : s[i] = c})

\* /^[a-zA-Z0-9._+-]+$/
StrictLocalChars == AlnumChars \cup {".", "_", "+", "-"}
StrictLocalPart(local) == Len(local) > 0 /\ AllChars(local, StrictLocalChars)

\* the RFC 5322 pattern of the non-strict branch: atoms of AtomChars,
\* separated by single dots
AtomChars == AlnumChars \cup {"!", "#", "$", "%", "&", "'", "*", "+", "/",
                              "=", "?", "^", "_", "BACKTICK", "{", "|", "}", "~", "-"}
RfcLocalPart(local) ==
  LET atoms == Split(local, ".")
  IN \A i \in 1..Len(atoms) :
        Len(atoms[i]) > 0 /\ AllChars(atoms[i], AtomChars)

\* /^[a-zA-Z0-9.-]+\.[a-zA-Z]{2,}$/
StrictDomain(domain) ==
  \E k \in 2..Len(domain) :
     /\ domain[k] = "."
     /\ AllChars(SubSeq(domain, 1, k - 1), AlnumChars \cup {".", "-"})
     /\ Len(domain) - k >= 2
     /\ AllChars(SubSeq(domain, k + 1, Len(domain)), LetterChars)

\* [a-zA-Z0-9](?:[a-zA-Z0-9-]{0,61}[a-zA-Z0-9])?
DomainLabel(label) ==
  /\ Len(label) \in 1..63
  /\ label[1] \in AlnumChars
  /\ label[Len(label)] \in AlnumChars
  /\ AllChars(label, AlnumChars \cup {"-"})

\* /^label(?:\.label)*$/
LabelDomain(domain) ==
  LET labels == Split(domain, ".")
  IN \A i \in 1..Len(labels) : DomainLabel(labels[i])

\* /[<>()[\]\\,;:\s@"]/
ProhibitedLocalChars ==
  {"<", ">", "(", ")", "[", "]", "\\", ",", ";", ":", "@", "QUOTE"}
  \cup WhitespaceChars

\* /test|temp|fake|spam|noreply/i on the lower-cased address
Disposable(email) ==
  \/ Includes(email, <<"t", "e", "s", "t">>)
  \/ Includes(email, <<"t", "e", "m", "p">>)
  \/ Includes(email, <<"f", "a", "k", "e">>)
  \/ Includes(email, <<"s", "p", "a", "m">>)
  \/ Includes(email, <<"n", "o", "r", "e", "p", "l", "y">>)

EmailTypeCheck(st, value) ==
  IF value.t # "string"
  THEN FailStop(st, "type", Err("TYPE_ERROR", "Expected string"))
  ELSE [Pass(st, "type") EXCEPT !.text = ToLowerCase(Trim(value.s))]

EmailMaxLength(st, o) ==
  IF st.stop THEN st
  ELSE IF Len(st.text) > o.maxLength
       THEN FailStop(st, "maxLength",
                     Err("STRING_TOO_LONG", "Email exceeds maximum length"))
       ELSE Pass(st, "maxLength")

EmailAtCount(st, o) ==
  IF st.stop THEN st
  ELSE IF CountChar(st.text, "@") # 1
       THEN FailStop(st, "atCount",
                     Err("SECURITY_VIOLATION", "Email must contain exactly one @ symbol"))
       ELSE Pass(st, "atCount")

LocalPart(email) == Split(email, "@")[1]
Domain(email) == Split(email, "@")[2]

EmailEmptyParts(st, o) ==
  IF st.stop THEN st
  ELSE IF LocalPart(st.text) = <<>> \/ Domain(st.text) = <<>>
       THEN FailStop(st, "emptyParts",
                     Err("SECURITY_VIOLATION",
                         "Email local part and domain cannot be empty"))
       ELSE Pass(st, "emptyParts")

\* an accumulating check of validateEmail: bad is its failure condition
EmailCheck(st, check, bad, msg) ==
  IF st.stop THEN st
  ELSE IF bad THEN Fail(st, check, Err("SECURITY_VIOLATION", msg))
       ELSE Pass(st, check)

EmailLocalLength(st, o) ==
  EmailCheck(st, "localLength", Len(LocalPart(st.text)) > 64,
             "Email local part exceeds 64 characters")

EmailPlus(st, o) ==
  EmailCheck(st, "plus", Includes(LocalPart(st.text), <<"+">>),
             "Plus addressing (+ symbols) is not allowed")

EmailLocalChars(st, o) ==
  EmailCheck(st, "localChars",
             IF o.strict THEN ~StrictLocalPart(LocalPart(st.text))
             ELSE ~RfcLocalPart(LocalPart(st.text)),
             "Email local part contains invalid characters")

EmailLocalDots(st, o) ==
  EmailCheck(st, "localDots", Includes(LocalPart(st.text), <<".", ".">>),
             "Email local part cannot contain consecutive dots")

EmailLocalEdgeDot(st, o) ==
  EmailCheck(st, "localEdgeDot",
             StartsWith(LocalPart(st.text), ".")
             \/ EndsWith(LocalPart(st.text), "."),
             "Email local part cannot start or end with a dot")

EmailDomainLength(st, o) ==
  EmailCheck(st, "domainLength", Len(Domain(st.text)) > 255,
             "Email domain exceeds 255 characters")

EmailDomainFormat(st, o) ==
  EmailCheck(st, "domainFormat",
             IF o.strict THEN ~StrictDomain(Domain(st.text))
             ELSE ~LabelDomain(Domain(st.text)),
             "Invalid domain format")

\* the domain passed on without its consecutive-dots check
EmailDomainDotsSkipped(st, o) == st

EmailDomainDots(st, o) ==
  EmailCheck(st, "domainDots", Includes(Domain(st.text), <<".", ".">>),
             "Domain cannot contain consecutive dots")

EmailDomainEdgeDot(st, o) ==
  EmailCheck(st, "domainEdgeDot",
             StartsWith(Domain(st.text), ".") \/ EndsWith(Domain(st.text), "."),
             "Domain cannot start or end with a dot")

EmailInternational(st, o) ==
  EmailCheck(st, "international",
             ~o.allowInternational /\ AnyChar(Domain(st.text), NonAsciiChars),
             "International domain names are not allowed")

EmailAllowedDomains(st, o) ==
  EmailCheck(st, "allowedDomains",
             o.allowedDomains # {} /\ Domain(st.text) \notin o.allowedDomains,
             "Email domain is not allowed")

EmailBlockedDomains(st, o) ==
  EmailCheck(st, "blockedDomains", Domain(st.text) \in o.blockedDomains,
             "Email domain is blocked")

EmailProhibitedChars(st, o) ==
  EmailCheck(st, "prohibitedChars",
             AnyChar(LocalPart(st.text), ProhibitedLocalChars),
             "Email local part contains prohibited characters")

EmailDisposable(st, o) ==
  IF st.stop THEN st
  ELSE IF Disposable(st.text)
       THEN Warn(st, "disposable", "Email appears to be temporary or test address")
       ELSE Pass(st, "disposable")

\* result.data = email
EmailSetData(st, o) ==
  IF st.stop THEN st ELSE [st EXCEPT !.data = Str(st.text)]

validateEmail(value, o) ==
  LET s1 == EmailTypeCheck(NewResult(value), value)
      s2 == EmailMaxLength(s1, o)
      s3 == EmailAtCount(s2, o)
      s4 == EmailEmptyParts(s3, o)
      s5 == EmailLocalLength(s4, o)
      s6 == EmailPlus(s5, o)
      s7 == EmailLocalChars(s6, o)
      s8 == EmailLocalDots(s7, o)
      s9 == EmailLocalEdgeDot(s8, o)
      s10 == EmailDomainLength(s9, o)
      s11 == EmailDomainFormat(s10, o)
      s12 == EmailDomainDots(s11, o)
      s13 == EmailDomainEdgeDot(s12, o)
      s14 == EmailInternational(s13, o)
      s15 == EmailAllowedDomains(s14, o)
      s16 == EmailBlockedDomains(s15, o)
      s17 == EmailProhibitedChars(s16, o)
      s18 == EmailDisposable(s17, o)
      s19 == EmailSetData(s18, o)
  IN Finish(s19)

EmailDefaults ==
  [allowInternational |-> TRUE, maxLength |-> 254, allowedDomains |-> {},
   blockedDomains |-> {}, strict |-> TRUE]


(***************************************************************************)
(* Objects: the heap maps an identity to [kind, keys, vals], the own       *)
(* enumerable properties in insertion order (an array's keys are its       *)
(* indices).                                                               *)
(***************************************************************************)
IsObject(v) == v.t = "object"
IsArray(h, v) == IsObject(v) /\ h[v.n].kind = "array"

\* Object.keys(value), Object.values(value)
ObjectKeys(h, v) == h[v.n].keys
ObjectValues(h, v) == h[v.n].vals

\* SECURITY_CONSTANTS.DANGEROUS_PROPERTIES
DANGEROUS_PROPERTIES == {"__proto__", "constructor", "prototype"}
MAX_OBJECT_DEPTH == 10

\* key.length of the property names of the model
KeyLength(k) ==
  CASE k \in {"a", "b", "0", "1"} -> 1
    [] k = "__x" -> 3
    [] k = "__proto__" -> 9
    [] k = "prototype" -> 9
    [] k = "constructor" -> 11
    [] k = "myPrototype" -> 11
    [] OTHER -> 1

\* /^__|.*prototype.*|.*constructor.*$/i .test(key)
SuspiciousKey(k) ==
  k \in {"__x", "__proto__", "prototype", "constructor", "myPrototype"}

\* the names every object inherits from Object.prototype (key in value)
ObjectPrototypeKeys == {"constructor", "__proto__", "toString"}

SeqToSet(q) == {q[i] : i \in 1..Len(q)}

\* the scan that does not descend into the values
hasDangerousPropertiesShallow(h, values, i, visited) ==
  [found |-> FALSE, visited |-> visited, trace |-> <<>>]

\* hasDangerousProperties(obj, visited): [found, visited, trace], the
\* WeakSet being shared by the whole recursion.  trace lists the calls made
\* on objects in order: the object, and whether visited.has(obj) answered
\* the call at once.
RECURSIVE hasDangerousPropertiesVisit(_, _, _)
RECURSIVE hasDangerousPropertiesValues(_, _, _, _)

\* the loop over the values with a visited set that each value starts
\* afresh from the parent's
RECURSIVE hasDangerousPropertiesValuesUnshared(_, _, _, _)
hasDangerousPropertiesValuesUnshared(h, values, i, visited) ==
  IF i > Len(values)
  THEN [found |-> FALSE, visited |-> visited, trace |-> <<>>]
  ELSE Given(hasDangerousPropertiesVisit(h, values[i], visited), LAMBDA r :
         IF r.found THEN r
         ELSE Given(hasDangerousPropertiesValuesUnshared(h, values, i + 1,
                                                         visited),
                    LAMBDA q : [q EXCEPT !.trace = r.trace \o @]))

\* the loop over the values that gives up after the first value
hasDangerousPropertiesValuesFirstOnly(h, values, i, visited) ==
  IF i > Len(values)
  THEN [found |-> FALSE, visited |-> visited, trace |-> <<>>]
  ELSE hasDangerousPropertiesVisit(h, values[i], visited)

hasDangerousPropertiesVisit(h, obj, visited) ==
  IF ~IsObject(obj)
  THEN [found |-> FALSE, visited |-> visited, trace |-> <<>>]
  ELSE IF obj.n \in visited
  THEN [found |-> FALSE, visited |-> visited,
        trace |-> <<[node |-> obj.n, revisit |-> TRUE]>>]
  ELSE IF \E i \in 1..Len(ObjectKeys(h, obj)) :
             ObjectKeys(h, obj)[i] \in DANGEROUS_PROPERTIES
       THEN [found |-> TRUE, visited |-> visited \cup {obj.n},
             trace |-> <<[node |-> obj.n, revisit |-> FALSE]>>]
       ELSE Given(hasDangerousPropertiesValues(h, ObjectValues(h, obj), 1,
                                               visited \cup {obj.n}),
                  LAMBDA r :
                    [r EXCEPT !.trace =
                                <<[node |-> obj.n, revisit |-> FALSE]>> \o @])

hasDangerousPropertiesValues(h, values, i, visited) ==
  IF i > Len(values)
  THEN [found |-> FALSE, visited |-> visited, trace |-> <<>>]
  ELSE Given(hasDangerousPropertiesVisit(h, values[i], visited), LAMBDA r :
         IF r.found THEN r
         ELSE Given(hasDangerousPropertiesValues(h, values, i + 1, r.visited),
                    LAMBDA q : [q EXCEPT !.trace = r.trace \o @]))

hasDangerousProperties(h, obj) ==
  hasDangerousPropertiesVisit(h, obj, {}).found

\* the objects one property away from object id
Children(h, id) ==
  {h[id].vals[i].n : i \in {j \in 1..Len(h[id].vals) : IsObject(h[id].vals[j])}}

\* the objects exactly d properties away from the objects of S
RECURSIVE Level(_, _, _)
Level(h, S, d) ==
  IF d = 0 \/ S = {} THEN S
  ELSE Level(h, UNION {Children(h, id) : id \in S}, d - 1)

\* the objects reachable from the objects of S
RECURSIVE Reachable(_, _)
Reachable(h, S) ==
  LET more == S \cup UNION {Children(h, id) : id \in S}
  IN IF more = S THEN S ELSE Reachable(h, more)

\* validateObjectDeep(value, maxDepth, 0): the depth-bounded structural walk
validateObjectDeep(h, value, maxDepth) ==
  IF Level(h, {value.n}, maxDepth + 1) # {}
  THEN [success |-> FALSE,
        errors |-> <<Err("SECURITY_VIOLATION", "Object exceeds maximum depth")>>,
        warnings |-> <<>>]
  ELSE [success |-> TRUE, errors |-> <<>>, warnings |-> <<>>]

\* the external schema delegate: a schema is known by its verdict
SchemaDelegate(schema) ==
  IF schema = "reject"
  THEN [success |-> FALSE,
        errors |-> <<Err("SCHEMA_VIOLATION", "Schema validation failed")>>,
        warnings |-> <<>>]
  ELSE [success |-> TRUE, errors |-> <<>>, warnings |-> <<>>]

\* the merge that forgets the delegate's errors
MergeWithoutErrors(st, check, r) ==
  [st EXCEPT !.success = st.success /\ r.success,
             !.warnings = st.warnings \o r.warnings,
             !.ran = Ran(st, check, ~r.success)]

\* result.success = result.success && r.success; push errors and warnings
Merge(st, check, r) ==
  [st EXCEPT !.success = st.success /\ r.success,
             !.errors = st.errors \o r.errors,
             !.warnings = st.warnings \o r.warnings,
             !.ran = Ran(st, check, ~r.success)]

(***************************************************************************)
(* validateObject                                                          *)
(***************************************************************************)
\* a passing shape gate that returns the result at once
PassStop(st, check) == [Pass(st, check) EXCEPT !.stop = TRUE]

ObjectNullCheck(st, value, o) ==
  IF value.t = "null"
  THEN IF ~o.allowNull
       THEN FailStop(st, "null",
                     Err("SECURITY_VIOLATION", "Null values not allowed"))
       ELSE PassStop(st, "null")
  ELSE Pass(st, "null")

ObjectArrayCheck(st, h, value, o) ==
  IF st.stop THEN st
  ELSE IF IsArray(h, value)
       THEN IF ~o.allowArray
            THEN FailStop(st, "array",
                          Err("SECURITY_VIOLATION", "Arrays not allowed"))
            ELSE PassStop(st, "array")
       ELSE Pass(st, "array")

ObjectTypeCheck(st, value, o) ==
  IF st.stop THEN st
  ELSE IF ~IsObject(value)
       THEN FailStop(st, "type", Err("TYPE_ERROR", "Expected object"))
       ELSE Pass(st, "type")

ObjectPollutionGuard(st, h, value, o) ==
  IF st.stop THEN st
  ELSE IF o.preventPrototypePollution /\ hasDangerousProperties(h, value)
       THEN FailStop(st, "pollution",
                     Err("SECURITY_VIOLATION",
                         "Object contains dangerous properties that could lead to prototype pollution"))
       ELSE Pass(st, "pollution")

ObjectKeyCount(st, h, value, o) ==
  IF st.stop THEN st
  ELSE IF Len(ObjectKeys(h, value)) > o.maxKeys
       THEN Fail(st, "maxKeys",
                 Err("SECURITY_VIOLATION", "Object has too many keys"))
       ELSE Pass(st, "maxKeys")

\* one error for every required key that is not "in" the value
RECURSIVE ObjectRequiredFrom(_, _, _, _, _)
ObjectRequiredFrom(st, h, value, required, i) ==
  IF i > Len(required) THEN st
  ELSE ObjectRequiredFrom(
         IF required[i] \notin SeqToSet(ObjectKeys(h, value))
                                 \cup ObjectPrototypeKeys
         THEN Fail(st, "requiredKey",
                   Err("SECURITY_VIOLATION", "Missing required key"))
         ELSE Pass(st, "requiredKey"),
         h, value, required, i + 1)

ObjectRequiredKeys(st, h, value, o) ==
  IF st.stop THEN st
  ELSE ObjectRequiredFrom(Pass(st, "requiredKeys"), h, value,
                          o.requiredKeys, 1)

\* the checks of one key that follow the two "continue" checks
KeyAllowed(st, key, o) ==
  IF o.allowedKeys # {} /\ key \notin o.allowedKeys
  THEN IF o.strict
       THEN Fail(st, "key.allowed",
                 Err("SECURITY_VIOLATION", "Key is not in allowed keys list"))
       ELSE Warn(st, "key.allowed", "Key is not in allowed keys list")
  ELSE Pass(st, "key.allowed")

KeyForbidden(st, key, o) ==
  IF key \in o.forbiddenKeys
  THEN Fail(st, "key.forbidden", Err("SECURITY_VIOLATION", "Key is forbidden"))
  ELSE Pass(st, "key.forbidden")

KeyPattern(st, key, o) ==
  IF o.keyPattern # NoPattern /\ key \notin o.keyPattern.chars
  THEN Fail(st, "key.pattern",
            Err("SECURITY_VIOLATION", "Key does not match required pattern"))
  ELSE Pass(st, "key.pattern")

KeySuspicious(st, key, o) ==
  IF SuspiciousKey(key)
  THEN Warn(st, "key.suspicious", "Suspicious property name detected")
  ELSE Pass(st, "key.suspicious")

\* the body of the loop over the keys, for one key
KeyDangerous(st, key, o) ==
  IF key \in DANGEROUS_PROPERTIES
  THEN Fail(st, "key.dangerous",
            Err("SECURITY_VIOLATION", "Dangerous property name detected"))
  ELSE KeySuspicious(
         KeyPattern(KeyForbidden(KeyAllowed(Pass(st, "key.dangerous"),
                                            key, o), key, o), key, o),
         key, o)

KeyChecks(st, key, o) ==
  IF KeyLength(key) > o.maxPropertyNameLength
  THEN Fail(st, "key.length",
            Err("SECURITY_VIOLATION", "Property name exceeds maximum length"))
  ELSE KeyDangerous(Pass(st, "key.length"), key, o)

RECURSIVE ObjectKeysFrom(_, _, _, _)
ObjectKeysFrom(st, keys, o, i) ==
  IF i > Len(keys) THEN st
  ELSE ObjectKeysFrom(KeyChecks(st, keys[i], o), keys, o, i + 1)

ObjectKeyLoop(st, h, value, o) ==
  IF st.stop THEN st
  ELSE ObjectKeysFrom(Pass(st, "keys"), ObjectKeys(h, value), o, 1)

ObjectDeep(st, h, value, o) ==
  IF st.stop THEN st
  ELSE Merge(st, "deep", validateObjectDeep(h, value, o.maxDepth))

ObjectSchema(st, h, value, o) ==
  IF st.stop THEN st
  ELSE IF o.schema # "none" /\ st.success
       THEN Merge(st, "schema", SchemaDelegate(o.schema))
       ELSE st

validateObject(h, value, o) ==
  LET s1 == ObjectNullCheck(NewResult(value), value, o)
      s2 == ObjectArrayCheck(s1, h, value, o)
      s3 == ObjectTypeCheck(s2, value, o)
      s4 == ObjectPollutionGuard(s3, h, value, o)
      s5 == ObjectKeyCount(s4, h, value, o)
      s6 == ObjectRequiredKeys(s5, h, value, o)
      s7 == ObjectKeyLoop(s6, h, value, o)
      s8 == ObjectDeep(s7, h, value, o)
      s9 == ObjectSchema(s8, h, value, o)
  IN Finish(s9)

ObjectDefaults ==
  [allowNull |-> FALSE, allowArray |-> FALSE, maxDepth |-> MAX_OBJECT_DEPTH,
   maxKeys |-> 1000, requiredKeys |-> <<>>, allowedKeys |-> {},
   forbiddenKeys |-> {}, keyPattern |-> NoPattern, schema |-> "none",
   strict |-> FALSE, preventPrototypePollution |-> TRUE,
   maxPropertyNameLength |-> 100]


(***************************************************************************)
(* JSON text: a string whose characters are grouped into lexical tokens    *)
(* [k, s, n]: the punctuation, Q the double quote, EQ an escaped quote,    *)
(* a number, null, a bare word (s its letters) and a pad of n letters.     *)
(***************************************************************************)
Tok(k) == [k |-> k, s |-> "", n |-> 0]
Bare(word) == [k |-> "bare", s |-> word, n |-> 0]
NumTok(k) == [k |-> "num", s |-> "", n |-> k]
Pad(k) == [k |-> "pad", s |-> "", n |-> k]

\* the characters a token stands for
TokLength(t) ==
  CASE t.k = "bare" -> KeyLength(t.s)
    [] t.k = "pad" -> t.n
    [] t.k = "null" -> 4
    [] t.k \in {"EQ", "EEQ"} -> 2
    [] OTHER -> 1

\* value.length of a token string
RECURSIVE TextLength(_)
TextLength(toks) ==
  IF toks = <<>> THEN 0 ELSE TokLength(Head(toks)) + TextLength(Tail(toks))

Unescape(content) ==
  [i \in 1..Len(content) |->
     IF content[i].k = "EQ" THEN Tok("Q")
     ELSE IF content[i].k = "EEQ" THEN Tok("EQ") ELSE content[i]]

Escape(content) ==
  [i \in 1..Len(content) |->
     IF content[i].k = "Q" THEN Tok("EQ")
     ELSE IF content[i].k = "EQ" THEN Tok("EEQ") ELSE content[i]]

\* the property name a string literal's content spells
KeyName(content) ==
  IF Len(content) = 1 /\ content[1].k = "bare" THEN content[1].s ELSE "?"

ParseFail == [ok |-> FALSE, val |-> Undefined, next |-> 0, heap |-> <<>>]
ParseOk(v, next, h) == [ok |-> TRUE, val |-> v, next |-> next, heap |-> h]

\* a string literal at position i: Q content Q
ParseString(toks, i) ==
  IF i > Len(toks) \/ toks[i].k # "Q" THEN ParseFail
  ELSE LET close == {j \in (i + 1)..Len(toks) : toks[j].k = "Q"}
       IN IF close = {} THEN ParseFail
          ELSE LET j == CHOOSE c \in close : \A d \in close : c <= d
               IN ParseOk(Str(Unescape(SubSeq(toks, i + 1, j - 1))), j + 1, <<>>)

\* obj[key] = v on a property list
SetProperty(node, key, v) ==
  IF key \in SeqToSet(node.keys)
  THEN [node EXCEPT !.vals = [i \in 1..Len(node.vals) |->
                                IF node.keys[i] = key THEN v ELSE node.vals[i]]]
  ELSE [node EXCEPT !.keys = Append(@, key), !.vals = Append(@, v)]

\* JSON.parse, by recursive descent; an object gets the position of its
\* opening bracket as its identity
RECURSIVE ParseValue(_, _)
RECURSIVE ParseMembers(_, _, _, _, _)
RECURSIVE ParseElements(_, _, _, _, _)
ParseValue(toks, i) ==
  IF i > Len(toks) THEN ParseFail
  ELSE CASE toks[i].k = "num" -> ParseOk(Num(toks[i].n), i + 1, <<>>)
         [] toks[i].k = "null" -> ParseOk(Null, i + 1, <<>>)
         [] toks[i].k = "Q" -> ParseString(toks, i)
         [] toks[i].k = "{" ->
              IF i < Len(toks) /\ toks[i + 1].k = "}"
              THEN ParseOk(Ref(i), i + 2,
                           i :> [kind |-> "object", keys |-> <<>>, vals |-> <<>>])
              ELSE ParseMembers(toks, i + 1, i,
                                [kind |-> "object", keys |-> <<>>, vals |-> <<>>],
                                <<>>)
         [] toks[i].k = "[" ->
              IF i < Len(toks) /\ toks[i + 1].k = "]"
              THEN ParseOk(Ref(i), i + 2,
                           i :> [kind |-> "array", keys |-> <<>>, vals |-> <<>>])
              ELSE ParseElements(toks, i + 1, i,
                                 [kind |-> "array", keys |-> <<>>, vals |-> <<>>],
                                 <<>>)
         [] OTHER -> ParseFail

\* the members of an object from position j on: "key": value, ... }
ParseMembers(toks, j, id, node, h) ==
  Given(ParseString(toks, j), LAMBDA key :
    IF ~key.ok \/ key.next > Len(toks) \/ toks[key.next].k # ":"
    THEN ParseFail
    ELSE Given(ParseValue(toks, key.next + 1), LAMBDA v :
           IF ~v.ok \/ v.next > Len(toks) \/ toks[v.next].k \notin {",", "}"}
           THEN ParseFail
           ELSE Given(SetProperty(node, KeyName(key.val.s), v.val), LAMBDA more :
                  IF toks[v.next].k = "}"
                  THEN ParseOk(Ref(id), v.next + 1, (id :> more) @@ v.heap @@ h)
                  ELSE ParseMembers(toks, v.next + 1, id, more, v.heap @@ h))))

\* the elements of an array from position j on: value, ... ]
ParseElements(toks, j, id, node, h) ==
  Given(ParseValue(toks, j), LAMBDA v :
    IF ~v.ok \/ v.next > Len(toks) \/ toks[v.next].k \notin {",", "]"}
    THEN ParseFail
    ELSE Given([node EXCEPT
                  !.keys = Append(@, IF Len(node.keys) = 0 THEN "0" ELSE "1"),
                  !.vals = Append(@, v.val)], LAMBDA more :
           IF toks[v.next].k = "]"
           THEN ParseOk(Ref(id), v.next + 1, (id :> more) @@ v.heap @@ h)
           ELSE ParseElements(toks, v.next + 1, id, more, v.heap @@ h)))

\* JSON.parse(text): the whole text must be one value
JsonParse(toks) ==
  Given(ParseValue(toks, 1), LAMBDA r :
    IF r.ok /\ r.next = Len(toks) + 1 THEN r ELSE ParseFail)

\* JSON.stringify(value): [ok, undef, toks]; it throws (ok = FALSE) on an
\* object that is its own descendant, and returns undefined for undefined
StringifyThrow == [ok |-> FALSE, undef |-> FALSE, toks |-> <<>>]
StringifyText(toks) == [ok |-> TRUE, undef |-> FALSE, toks |-> toks]

RECURSIVE Stringify(_, _, _)
RECURSIVE StringifyProperties(_, _, _, _, _)
Stringify(h, v, path) ==
  CASE v.t = "undefined" -> [ok |-> TRUE, undef |-> TRUE, toks |-> <<>>]
    [] v.t = "number" -> StringifyText(<<NumTok(v.n)>>)
    [] v.t = "null" -> StringifyText(<<Tok("null")>>)
    [] v.t = "string" ->
         StringifyText(<<Tok("Q")>> \o Escape(v.s) \o <<Tok("Q")>>)
    [] OTHER ->
         IF v.n \in path THEN StringifyThrow
         ELSE Given(StringifyProperties(h, h[v.n], 1, path \cup {v.n}, <<>>),
                    LAMBDA body :
                IF ~body.ok THEN StringifyThrow
                ELSE IF h[v.n].kind = "array"
                     THEN StringifyText(<<Tok("[")>> \o body.toks \o <<Tok("]")>>)
                     ELSE StringifyText(<<Tok("{")>> \o body.toks \o <<Tok("}")>>))

\* an undefined element of an array is written null, an undefined property
\* of an object is left out
StringifyProperties(h, node, i, path, acc) ==
  IF i > Len(node.vals) THEN StringifyText(acc)
  ELSE Given(Stringify(h, node.vals[i], path), LAMBDA v :
         IF ~v.ok THEN StringifyThrow
         ELSE Given(IF node.kind = "array"
                    THEN IF v.undef THEN <<Tok("null")>> ELSE v.toks
                    ELSE IF v.undef THEN <<>>
                         ELSE <<Tok("Q"), Bare(node.keys[i]), Tok("Q"), Tok(":")>>
                              \o v.toks,
                    LAMBDA item :
                StringifyProperties(h, node, i + 1, path,
                  IF item = <<>> THEN acc
                  ELSE IF acc = <<>> THEN item
                       ELSE acc \o <<Tok(",")>> \o item)))

JsonStringify(h, v) == Stringify(h, v, {})


(***************************************************************************)
(* validateJson                                                            *)
(***************************************************************************)
MAX_JSON_SIZE == 10000000

\* the objects at most d properties away from the objects of S
RECURSIVE WithinDepth(_, _, _)
WithinDepth(h, S, d) ==
  IF d = 0 \/ S = {} THEN S
  ELSE S \cup WithinDepth(h, UNION {Children(h, id) : id \in S}, d - 1)

RECURSIVE SumKeys(_, _)
SumKeys(h, S) ==
  IF S = {} THEN 0
  ELSE LET id == CHOOSE x \in S : TRUE
       IN (IF h[id].kind = "object" THEN Len(h[id].keys) ELSE 0)
          + SumKeys(h, S \ {id})

\* the type names of the allowedTypes policy
JsonType(h, v) ==
  IF IsObject(v) THEN h[v.n].kind ELSE v.t

\* validateJsonDeep(parsedData, limits): the structural walk; every
\* violation is pushed and the walk goes on
validateJsonDeep(h, value, o) ==
  LET root == IF IsObject(value) THEN {value.n} ELSE {}
      nodes == WithinDepth(h, root, o.maxDepth)
      values == {value} \cup
                UNION {SeqToSet(h[id].vals) : id \in nodes}
      keys == UNION {SeqToSet(h[id].keys) :
                       id \in {x \in nodes : h[x].kind = "object"}}
      errs ==
        (IF Level(h, root, o.maxDepth + 1) # {}
         THEN <<Err("SECURITY_VIOLATION", "JSON exceeds maximum depth")>>
         ELSE <<>>)
        \o (IF SumKeys(h, nodes) > o.maxKeys
            THEN <<Err("SECURITY_VIOLATION", "JSON exceeds maximum key count")>>
            ELSE <<>>)
        \o (IF \E v \in values :
                 v.t = "string" /\ TextLength(v.s) > o.maxStringLength
            THEN <<Err("STRING_TOO_LONG", "String exceeds maximum length")>>
            ELSE <<>>)
        \o (IF \E id \in nodes :
                 h[id].kind = "array" /\ Len(h[id].vals) > o.maxArrayLength
            THEN <<Err("ARRAY_TOO_LONG", "Array exceeds maximum length")>>
            ELSE <<>>)
        \o (IF \E v \in values : JsonType(h, v) \notin o.allowedTypes
            THEN <<Err("TYPE_ERROR", "Type is not allowed")>>
            ELSE <<>>)
        \o (IF keys \cap o.forbiddenKeys # {}
            THEN <<Err("SECURITY_VIOLATION", "Forbidden key")>>
            ELSE <<>>)
  IN [success |-> errs = <<>>, errors |-> errs, warnings |-> <<>>]

\* typeof value === "string" ... else typeof value === "object" && value
\* !== null ... else the type error
JsonTypeCheck(st, h, value) ==
  IF value.t = "string" THEN Pass(st, "type")
  ELSE IF IsObject(value)
       THEN [Pass(st, "type") EXCEPT !.parsed = value, !.heap = h]
       ELSE FailStop(st, "type",
                     Err("TYPE_ERROR", "Expected string or object"))

JsonMaxSize(st, value, o) ==
  IF st.stop \/ value.t # "string" THEN st
  ELSE IF TextLength(value.s) > o.maxSize
       THEN FailStop(st, "maxSize",
                     Err("STRING_TOO_LONG", "JSON string exceeds maximum size"))
       ELSE Pass(st, "maxSize")

JsonParseStage(st, value) ==
  IF st.stop \/ value.t # "string" THEN st
  ELSE Given(JsonParse(value.s), LAMBDA r :
         IF ~r.ok
         THEN FailStop(st, "parse", Err("INVALID_JSON", "Invalid JSON string"))
         ELSE [Pass(st, "parse") EXCEPT !.parsed = r.val, !.heap = r.heap])

JsonDangerousProperties(st, o) ==
  IF st.stop \/ o.securityMode \notin {"secure", "strict"} THEN st
  ELSE IF hasDangerousProperties(st.heap, st.parsed)
       THEN FailStop(st, "pollution",
                     Err("INVALID_JSON", "JSON contains dangerous properties"))
       ELSE Pass(st, "pollution")

\* the compiled "secure-json-v2" schema is known by its verdict
JsonStrict(st, o) ==
  IF st.stop \/ o.securityMode # "strict" THEN st
  ELSE IF o.ajv = "reject"
       THEN [FailStop(st, "strict",
                      Err("INVALID_JSON", "JSON failed strict security validation"))
               EXCEPT !.warnings = Append(@, "AJV errors")]
       ELSE Pass(st, "strict")

JsonCircular(st, o) ==
  IF st.stop \/ ~o.preventCircular THEN st
  ELSE IF ~JsonStringify(st.heap, st.parsed).ok
       THEN FailStop(st, "circular",
                     Err("INVALID_JSON", "JSON contains circular references"))
       ELSE Pass(st, "circular")

JsonDeep(st, o) ==
  IF st.stop THEN st
  ELSE [Merge(st, "deep", validateJsonDeep(st.heap, st.parsed, o))
          EXCEPT !.data = st.parsed]

JsonSchema(st, o) ==
  IF st.stop THEN st
  ELSE IF o.schema # "none" /\ st.success
       THEN Merge(st, "schema", SchemaDelegate(o.schema))
       ELSE st

\* the state of validateJsonSync at its return
validateJsonSyncRun(h, value, o) ==
  LET s1 == JsonTypeCheck(NewResult(value), h, value)
      s2 == JsonMaxSize(s1, value, o)
      s3 == JsonParseStage(s2, value)
      s4 == JsonDangerousProperties(s3, o)
      s5 == JsonStrict(s4, o)
      s6 == JsonCircular(s5, o)
      s7 == JsonDeep(s6, o)
  IN JsonSchema(s7, o)

validateJsonSync(h, value, o) == Finish(validateJsonSyncRun(h, value, o))

JsonDefaults ==
  [maxDepth |-> MAX_OBJECT_DEPTH, maxKeys |-> 1000, maxStringLength |-> 10000,
   maxArrayLength |-> 1000,
   allowedTypes |-> {"object", "array", "string", "number", "boolean", "null"},
   forbiddenKeys |-> {}, schema |-> "none", preventCircular |-> TRUE,
   maxSize |-> MAX_JSON_SIZE, securityMode |-> "secure", ajv |-> "accept",
   enableMetrics |-> FALSE, useCache |-> FALSE]


(***************************************************************************)
(* validateIp                                                              *)
(***************************************************************************)
HexChars ==
  DigitChars \cup {"a", "b", "c", "d", "e", "f", "A", "B", "C", "D", "E", "F"}

\* /^[\d\.:a-fA-F\/]+$/
IpChars == HexChars \cup {".", ":", "/"}

DigitVal(c) ==
  CASE c = "0" -> 0 [] c = "1" -> 1 [] c = "2" -> 2 [] c = "3" -> 3
    [] c = "4" -> 4 [] c = "5" -> 5 [] c = "6" -> 6 [] c = "7" -> 7
    [] c = "8" -> 8 [] c = "9" -> 9 [] OTHER -> 0

\* /^\d+$/
IsNumeric(s) == Len(s) > 0 /\ AllChars(s, DigitChars)

\* parseInt(s, 10) and Number(s) of a string of digits
RECURSIVE ParseInt(_)
ParseInt(s) ==
  IF s = <<>> THEN 0
  ELSE ParseInt(SubSeq(s, 1, Len(s) - 1)) * 10 + DigitVal(s[Len(s)])

\* validateIPv4(ipAddress, strict).valid: four decimal octets of 0..255,
\* without a leading zero in strict mode
validateIPv4(ip, strict) ==
  LET parts == Split(ip, ".")
  IN /\ Len(parts) = 4
     /\ \A i \in 1..4 :
          /\ IsNumeric(parts[i])
          /\ Len(parts[i]) <= 3
          /\ ParseInt(parts[i]) <= 255
          /\ strict => (Len(parts[i]) = 1 \/ parts[i][1] # "0")

\* the positions of "::" in the text
DoubleColons(ip) ==
  {i \in 1..(Len(ip) - 1) : ip[i] = ":" /\ ip[i + 1] = ":"}

\* validateIPv6(ipAddress, strict).valid: eight groups of one to four
\* hexadecimal digits, one run of zero groups abbreviated by "::"
validateIPv6(ip, strict) ==
  LET parts == Split(ip, ":")
      groups == {i \in 1..Len(parts) : parts[i] # <<>>}
  IN /\ Len(ip) >= 2
     /\ AllChars(ip, HexChars \cup {":"})
     /\ Cardinality(DoubleColons(ip)) <= 1
     /\ ip[1] = ":" => ip[2] = ":"
     /\ ip[Len(ip)] = ":" => ip[Len(ip) - 1] = ":"
     /\ \A i \in groups : Len(parts[i]) <= 4
     /\ IF DoubleColons(ip) = {} THEN Len(parts) = 8
        ELSE Cardinality(groups) <= 7

\* a group padded to four lower-case digits
PadGroup(g) == [i \in 1..(4 - Len(g)) |-> "0"] \o ToLowerCase(g)

RECURSIVE JoinGroups(_)
JoinGroups(gs) ==
  IF Len(gs) = 0 THEN <<>>
  ELSE IF Len(gs) = 1 THEN gs[1]
       ELSE gs[1] \o <<":">> \o JoinGroups(Tail(gs))

NonEmpty(parts) == SelectSeq(parts, LAMBDA g : g # <<>>)

\* normalizeIPv6(ipAddress): the eight groups in full, lower case
normalizeIPv6(ip) ==
  LET at == DoubleColons(ip)
      k == CHOOSE i \in at : TRUE
      left == IF at = {} THEN NonEmpty(Split(ip, ":"))
              ELSE NonEmpty(Split(SubSeq(ip, 1, k - 1), ":"))
      right == IF at = {} THEN <<>>
               ELSE NonEmpty(Split(SubSeq(ip, k + 2, Len(ip)), ":"))
      zeros == [i \in 1..(8 - Len(left) - Len(right)) |-> <<"0">>]
      all == left \o zeros \o right
  IN JoinGroups([i \in 1..Len(all) |-> PadGroup(all[i])])

\* String.prototype.startsWith
StartsWithText(text, prefix) ==
  Len(text) >= Len(prefix) /\ SubSeq(text, 1, Len(prefix)) = prefix

IpTypeCheck(st, value) ==
  IF value.t # "string"
  THEN FailStop(st, "type", Err("TYPE_ERROR", "Expected string for IP address"))
  ELSE [Pass(st, "type") EXCEPT !.text = Trim(value.s)]

IpCharacters(st) ==
  IF st.stop THEN st
  ELSE IF ~(Len(st.text) > 0 /\ AllChars(st.text, IpChars))
       THEN FailStop(st, "characters",
                     Err("SECURITY_VIOLATION",
                         "IP address contains invalid characters"))
       ELSE Pass(st, "characters")

HasCidr(st) == AnyChar(st.text, {"/"})

IpCidrAllowed(st, o) ==
  IF st.stop \/ ~HasCidr(st) THEN st
  ELSE IF ~o.allowCIDR
       THEN FailStop(st, "cidrAllowed",
                     Err("SECURITY_VIOLATION", "CIDR notation is not allowed"))
       ELSE Pass(st, "cidrAllowed")

IpCidrFormat(st) ==
  IF st.stop \/ ~HasCidr(st) THEN st
  ELSE IF Len(Split(st.text, "/")) # 2
       THEN FailStop(st, "cidrFormat",
                     Err("SECURITY_VIOLATION", "Invalid CIDR notation format"))
       ELSE Pass(st, "cidrFormat")

IpCidrNumeric(st) ==
  IF st.stop \/ ~HasCidr(st) THEN st
  ELSE IF ~IsNumeric(Split(st.text, "/")[2])
       THEN FailStop(st, "cidrNumeric",
                     Err("SECURITY_VIOLATION", "CIDR prefix must be numeric"))
       ELSE Pass(st, "cidrNumeric")

\* ipAddress and cidrPrefix (-1 for null) once the CIDR suffix is split off
IpAddress(st) == IF HasCidr(st) THEN Split(st.text, "/")[1] ELSE st.text
CidrPrefix(st) == IF HasCidr(st) THEN ParseInt(Split(st.text, "/")[2]) ELSE -1

IpVersion(st, o) ==
  IF st.stop THEN st
  ELSE LET isIPv4 == validateIPv4(IpAddress(st), o.strict)
           isIPv6 == validateIPv6(IpAddress(st), o.strict)
       IN IF o.version = "v4" /\ ~isIPv4
          THEN FailStop(st, "version",
                        Err("SECURITY_VIOLATION", "Invalid IPv4 address format"))
          ELSE IF o.version = "v6" /\ ~isIPv6
               THEN FailStop(st, "version",
                             Err("SECURITY_VIOLATION",
                                 "Invalid IPv6 address format"))
               ELSE IF o.version = "both" /\ ~isIPv4 /\ ~isIPv6
                    THEN FailStop(st, "version",
                                  Err("SECURITY_VIOLATION",
                                      "Invalid IP address format"))
                    ELSE Pass(st, "version")

\* one accumulating range rule: it applies when `on`, and fails when `bad`
IpRule(st, check, on, bad, msg) ==
  IF st.stop \/ ~on THEN st
  ELSE IF bad THEN Fail(st, check, Err("SECURITY_VIOLATION", msg))
       ELSE Pass(st, check)

Octets(st) ==
  LET parts == Split(IpAddress(st), ".")
  IN [i \in 1..Len(parts) |-> ParseInt(parts[i])]

IsIPv4(st, o) == ~st.stop /\ validateIPv4(IpAddress(st), o.strict)
IsIPv6(st, o) == ~st.stop /\ validateIPv6(IpAddress(st), o.strict)

IpCidrPrefix4(st, o) ==
  IpRule(st, "cidrPrefix4", IsIPv4(st, o) /\ HasCidr(st),
         CidrPrefix(st) < 0 \/ CidrPrefix(st) > 32,
         "Invalid IPv4 CIDR prefix (must be 0-32)")

IpCidrPrefix6(st, o) ==
  IpRule(st, "cidrPrefix6", IsIPv6(st, o) /\ HasCidr(st),
         CidrPrefix(st) < 0 \/ CidrPrefix(st) > 128,
         "Invalid IPv6 CIDR prefix (must be 0-128)")

\* the private rule on the first octet alone
IpPrivate4FirstOctet(st, o) ==
  IpRule(st, "private4", IsIPv4(st, o) /\ ~o.allowPrivate,
         Octets(st)[1] \in {10, 172, 192, 169},
         "Private IPv4 addresses not allowed")

IpPrivate4(st, o) ==
  IpRule(st, "private4", IsIPv4(st, o) /\ ~o.allowPrivate,
         LET octets == Octets(st)
         IN \/ octets[1] = 10
            \/ (octets[1] = 172 /\ octets[2] >= 16 /\ octets[2] <= 31)
            \/ (octets[1] = 192 /\ octets[2] = 168)
            \/ (octets[1] = 169 /\ octets[2] = 254),
         "Private IPv4 addresses not allowed")

IpLoopback4(st, o) ==
  IpRule(st, "loopback4", IsIPv4(st, o) /\ ~o.allowLoopback,
         Octets(st)[1] = 127, "Loopback addresses not allowed")

IpMulticast4(st, o) ==
  IpRule(st, "multicast4", IsIPv4(st, o) /\ ~o.allowMulticast,
         Octets(st)[1] >= 224 /\ Octets(st)[1] <= 239,
         "Multicast addresses not allowed")

IpDocumentation4(st, o) ==
  IpRule(st, "documentation4", IsIPv4(st, o) /\ ~o.allowDocumentation,
         LET octets == Octets(st)
         IN \/ (octets[1] = 192 /\ octets[2] = 0 /\ octets[3] = 2)
            \/ (octets[1] = 198 /\ octets[2] = 51 /\ octets[3] = 100)
            \/ (octets[1] = 203 /\ octets[2] = 0 /\ octets[3] = 113),
         "Documentation addresses not allowed")

IpBogon4(st, o) ==
  IpRule(st, "bogon4", IsIPv4(st, o) /\ o.blockBogons,
         LET octets == Octets(st)
         IN \/ octets[1] = 0
            \/ octets[1] = 255
            \/ (octets[1] >= 240 /\ octets[1] <= 255),
         "Bogon IP address detected")

IpReserved4(st, o) ==
  IpRule(st, "reserved4", IsIPv4(st, o) /\ ~o.allowReserved,
         Octets(st)[1] = 0 \/ Octets(st)[1] = 255,
         "Reserved IPv4 addresses not allowed")

IpLoopback6(st, o) ==
  IpRule(st, "loopback6", IsIPv6(st, o) /\ ~o.allowLoopback,
         normalizeIPv6(IpAddress(st)) =
           JoinGroups([i \in 1..8 |-> IF i = 8 THEN <<"0", "0", "0", "1">>
                                      ELSE <<"0", "0", "0", "0">>]),
         "IPv6 loopback address not allowed")

IpPrivate6(st, o) ==
  IpRule(st, "private6", IsIPv6(st, o) /\ ~o.allowPrivate,
         \/ StartsWithText(normalizeIPv6(IpAddress(st)),
                           <<"f", "c", "0", "0", ":">>)
         \/ StartsWithText(normalizeIPv6(IpAddress(st)),
                           <<"f", "d", "0", "0", ":">>),
         "Private IPv6 addresses not allowed")

IpLinkLocal6(st, o) ==
  IpRule(st, "linkLocal6", IsIPv6(st, o) /\ ~o.allowPrivate,
         StartsWithText(normalizeIPv6(IpAddress(st)),
                        <<"f", "e", "8", "0", ":">>),
         "Link-local IPv6 addresses not allowed")

IpMulticast6(st, o) ==
  IpRule(st, "multicast6", IsIPv6(st, o) /\ ~o.allowMulticast,
         StartsWithText(normalizeIPv6(IpAddress(st)),
                        <<"f", "f", "0", "0", ":">>),
         "IPv6 multicast addresses not allowed")

IpDocumentation6(st, o) ==
  IpRule(st, "documentation6", IsIPv6(st, o) /\ ~o.allowDocumentation,
         StartsWithText(normalizeIPv6(IpAddress(st)),
                        <<"2", "0", "0", "1", ":", "0", "d", "b", "8", ":">>),
         "Documentation IPv6 addresses not allowed")

validateIp(value, o) ==
  LET s1 == IpTypeCheck(NewResult(value), value)
      s2 == IpCharacters(s1)
      s3 == IpCidrAllowed(s2, o)
      s4 == IpCidrFormat(s3)
      s5 == IpCidrNumeric(s4)
      s6 == IpVersion(s5, o)
      s7 == IpCidrPrefix4(s6, o)
      s8 == IpCidrPrefix6(s7, o)
      s9 == IpPrivate4(s8, o)
      s10 == IpLoopback4(s9, o)
      s11 == IpMulticast4(s10, o)
      s12 == IpDocumentation4(s11, o)
      s13 == IpBogon4(s12, o)
      s14 == IpReserved4(s13, o)
      s15 == IpLoopback6(s14, o)
      s16 == IpPrivate6(s15, o)
      s17 == IpLinkLocal6(s16, o)
      s18 == IpMulticast6(s17, o)
      s19 == IpDocumentation6(s18, o)
  IN Finish(s19)

IpDefaults ==
  [version |-> "both", allowPrivate |-> TRUE, allowLoopback |-> TRUE,
   allowMulticast |-> FALSE, allowReserved |-> TRUE, allowCIDR |-> FALSE,
   strict |-> TRUE, blockBogons |-> FALSE, allowDocumentation |-> TRUE]


(***************************************************************************)
(* validateBatch.  An item is a value with the way the caller's validator  *)
(* treats it: "prompt" settles before any timer can fire, "slow" awaits    *)
(* something outside and settles at any later moment, "throws" throws.     *)
(* The validator is validateEmail with its default options.                *)
(***************************************************************************)
NoBatch ==
  [values |-> <<>>, o |-> <<>>, batches |-> <<>>, i |-> 0, k |-> 0,
   pending |-> {}, settled |-> <<>>,
   loop |-> "idle", timer |-> "none", results |-> <<>>, invoked |-> <<>>,
   summary |-> [total |-> 0, passed |-> 0, failed |-> 0]]

\* every position in one window, whatever maxConcurrency is
CreateBatchesSingleWindow(n, i, maxConcurrency) ==
  IF n = 0 THEN <<>> ELSE <<[j \in 1..n |-> j]>>

\* for (let i = 0; i < values.length; i += maxConcurrency)
\*   batches.push(values.slice(i, i + maxConcurrency)), as positions
RECURSIVE CreateBatches(_, _, _)
CreateBatches(n, i, maxConcurrency) ==
  IF i >= n THEN <<>>
  ELSE LET last == IF i + maxConcurrency < n THEN i + maxConcurrency ELSE n
       IN <<[j \in 1..(last - i) |-> i + j]>>
          \o CreateBatches(n, i + maxConcurrency, maxConcurrency)

\* the entry a validator call leaves in batchResults
BatchEntry(item) ==
  IF item.mode = "throws"
  THEN [success |-> FALSE,
        errors |-> <<Err("UNKNOWN_ERROR", "Batch validation error")>>,
        warnings |-> <<>>, data |-> item.v, ran |-> <<>>]
  ELSE validateEmail(item.v, EmailDefaults)

\* the entries the catch block pushes: values[results.length + i] is read
\* while results grows
RECURSIVE TimeoutEntries(_, _, _, _)
TimeoutEntries(values, results, i, remaining) ==
  IF i >= remaining THEN results
  ELSE TimeoutEntries(
         values,
         Append(results,
                [success |-> FALSE,
                 errors |-> <<Err("UNKNOWN_ERROR", "Batch validation timeout")>>,
                 warnings |-> <<>>,
                 data |-> IF Len(results) + i + 1 <= Len(values)
                          THEN values[Len(results) + i + 1].v
                          ELSE Undefined,
                 ran |-> <<>>]),
         i + 1, remaining)

Summary(results) ==
  [total |-> Len(results),
   passed |-> Cardinality({i \in 1..Len(results) : results[i].success}),
   failed |-> Cardinality({i \in 1..Len(results) : ~results[i].success})]

\* the loop takes its next window and calls the validator on every item
\* of it, or ends when no window is left
Launch(b) ==
  IF b.k < Len(b.batches)
  THEN LET window == b.batches[b.k + 1]
       IN [b EXCEPT !.k = b.k + 1,
                    !.pending = {window[j] : j \in {x \in 1..Len(window) :
                                   b.values[window[x]].mode = "slow"}},
                    !.settled = SelectSeq(window,
                                  LAMBDA p : b.values[p].mode # "slow"),
                    !.invoked = b.invoked \o window]
  ELSE [b EXCEPT !.loop = "finished"]

\* the entries of the window in the order its calls settled
PromiseAllInCompletionOrder(window, settled, values) ==
  [j \in 1..Len(settled) |-> BatchEntry(values[settled[j]])]

\* await Promise.all(batchPromises): the entries in the order of the
\* window, whatever order the calls settled in
PromiseAll(window, settled, values) ==
  [j \in 1..Len(window) |-> BatchEntry(values[window[j]])]

\* the loop going on whatever the window holds
ShouldBreakNever(o, batchResults) == FALSE

\* !continueOnError && batchResults.some((r) => !r.success)
ShouldBreak(o, batchResults) ==
  ~o.continueOnError
  /\ \E j \in 1..Len(batchResults) : ~batchResults[j].success

\* the wrapped operation has resolved: the timer is cleared and, unless the
\* timeout has already answered the caller, the batch returns
Settled(b) ==
  IF b.loop = "finished" /\ b.timer = "armed"
  THEN [b EXCEPT !.timer = "cleared", !.summary = Summary(b.results)]
  ELSE b


(***************************************************************************)
(* ValidationMetrics and ValidationCache, the process-wide singletons.     *)
(***************************************************************************)
NoMetrics == [validateText |-> [count |-> 0, errorCount |-> 0],
              validateJson |-> [count |-> 0, errorCount |-> 0]]

\* ValidationMetrics.record(name, duration, isError)
MetricsRecord(m, name, isError) ==
  [m EXCEPT ![name] = [count |-> @.count + 1,
                       errorCount |-> @.errorCount + (IF isError THEN 1 ELSE 0)]]

EmptyCache == <<>>

\* ValidationCache.get(key): the entries are [key, result], oldest first
CacheHas(c, key) == \E i \in 1..Len(c) : c[i].key = key
CacheGet(c, key) == c[CHOOSE i \in 1..Len(c) : c[i].key = key].result

\* ValidationCache.set(key, result)
CacheSet(c, key, r) ==
  IF CacheHas(c, key)
  THEN [i \in 1..Len(c) |-> IF c[i].key = key THEN [key |-> key, result |-> r]
                                              ELSE c[i]]
  ELSE Append(c, [key |-> key, result |-> r])

\* text.substring(0, k) on a token string; a token cut in two keeps its
\* first characters
RECURSIVE Substring(_, _)
Substring(toks, k) ==
  IF toks = <<>> \/ k <= 0 THEN <<>>
  ELSE IF TokLength(Head(toks)) <= k
       THEN <<Head(toks)>> \o Substring(Tail(toks), k - TokLength(Head(toks)))
       ELSE <<[Head(toks) EXCEPT !.k = "cut", !.s = Head(toks).k \o Head(toks).s,
                                 !.n = k]>>

\* `json_${JSON.stringify(value).substring(0, 100)}_${JSON.stringify(options)}`
\* [throws, key]: stringify throws on a cycle, and undefined has no substring
JsonCacheKey(h, value, o) ==
  Given(JsonStringify(h, value), LAMBDA text :
    IF ~text.ok \/ text.undef THEN [throws |-> TRUE, key |-> <<>>]
    ELSE [throws |-> FALSE,
          key |-> <<"json", Substring(text.toks, 100), o>>])

\* nothing is ever stored
JsonStoreNever(c, key, r, o) == c

\* the result r is stored under any key, whatever its success flag
JsonStoreAlways(c, key, r, o) ==
  IF o.useCache THEN CacheSet(c, key, r) ELSE c

\* if (cacheKey && result.success) ValidationCache.set(cacheKey, result)
JsonStore(c, key, r, o) ==
  IF o.useCache /\ r.success THEN CacheSet(c, key, r) ELSE c

\* if (enableMetrics) ValidationMetrics.record("validateJson", ..., !success)
JsonMeter(m, r, o) ==
  IF o.enableMetrics THEN MetricsRecord(m, "validateJson", ~r.success) ELSE m

\* validateJson(value, options) against the cache c and the metrics m:
\* the settled promise [outcome, result, heap, cache, metrics]
validateJson(h, value, o, c, m) ==
  Given(IF o.useCache THEN JsonCacheKey(h, value, o)
        ELSE [throws |-> FALSE, key |-> <<>>], LAMBDA cacheKey :
    IF cacheKey.throws
    THEN [outcome |-> "rejected", result |-> NoResult,
          heap |-> h, cache |-> c, metrics |-> m]
    ELSE IF o.useCache /\ CacheHas(c, cacheKey.key)
         THEN [outcome |-> "returned", result |-> CacheGet(c, cacheKey.key),
               heap |-> h, cache |-> c, metrics |-> m]
         ELSE Given(validateJsonSyncRun(h, value, o), LAMBDA run :
                Given(Finish(run), LAMBDA r :
                  [outcome |-> "returned", result |-> r,
                   heap |-> IF run.heap = <<>> THEN h ELSE run.heap,
                   cache |-> JsonStore(c, cacheKey.key, r, o),
                   metrics |-> JsonMeter(m, r, o)])))

(***************************************************************************)
(* The inputs of the model.                                                *)
(***************************************************************************)
Override(base, toggles) ==
  {base} \cup {[base EXCEPT ![t[1]] = t[2]] : t \in toggles}

Override2(base, first, toggles) ==
  {[[base EXCEPT ![t[1]] = t[2]] EXCEPT ![u[1]] = u[2]] :
     t \in first, u \in toggles}

TextChars == {"e", "\n", "U+0301", "U+00E9", "<", "'", "(", ";", "U+0001",
              "U+0000"}

NonStrings == {Num(1), Null, Undefined}

TextValues ==
  {Str(q) : q \in SeqsUpTo(TextChars, MaxLen)}
  \cup {Str(JavascriptScheme), Str(DataHtmlScheme),
        Str(<<" ", "e", "'", " ">>), Str(<<"e", "U+0301", "\n", "<", "'">>)}
  \cup NonStrings

TextPrimaryToggles ==
  {<<"maxLength", 1>>, <<"minLength", 2>>, <<"allowEmpty", FALSE>>,
   <<"trimWhitespace", TRUE>>, <<"normalizeUnicode", TRUE>>}

TextToggles ==
  TextPrimaryToggles \cup
  {<<"allowedCharacters", Pattern("all", {"e", "\n", "'"})>>,
   <<"forbiddenPatterns", <<Pattern("any", {"<"})>>>>,
   <<"forbiddenPatterns", <<Pattern("any", {"("}),
                            Pattern("any", {"'"})>>>>,
   <<"encoding", "ascii">>, <<"preventXSS", FALSE>>, <<"allowHTML", TRUE>>,
   <<"preventSQLInjection", FALSE>>, <<"preventLDAPInjection", TRUE>>,
   <<"preventCommandInjection", TRUE>>, <<"maxLines", 1>>,
   <<"requireAlphanumeric", TRUE>>, <<"enableMetrics", TRUE>>}

\* option records whose patterns carry the g flag
TextGlobalPatterns ==
  {<<"allowedCharacters", GlobalPattern("all", {"e", "\n", "'"})>>,
   <<"forbiddenPatterns", <<GlobalPattern("any", {"("})>>>>,
   <<"forbiddenPatterns", <<Pattern("any", {";"}), GlobalPattern("any", {"e"})>>>>}

TextOptions ==
  Override(TextDefaults, TextToggles \cup TextGlobalPatterns)
  \cup Override2(TextDefaults, TextPrimaryToggles, TextToggles)

Repeat(c, k) == [i \in 1..k |-> c]

EmailLocals == SeqsUpTo({"a", "A", ".", "+"}, MaxLocal)
EmailDomains == SeqsUpTo({"a", "."}, MaxDomain)

EmailValues ==
  {Str(pre \o l \o <<"@">> \o d) :
     pre \in {<<>>, <<" ">>}, l \in EmailLocals, d \in EmailDomains}
  \cup {Str(<<"t", "e", "s", "t", "@", "a", ".", "a", "a">>),
        Str(<<"#", "@", "a", ".", "a", "a">>),
        Str(<<"a", "@", "U+00E9", ".", "a", "a">>),
        Str(<<"a", "@", "a", "-", ".", "a", "a">>),
        Str(<<"a", "@", "1", ".", "a", "a">>),
        Str(<<"a", "@", "a", ".", "a", "1">>),
        Str(<<"a", "@", "@", "a", ".", "a", "a">>),
        Str(<<"A", "a">>),
        Str(<<"a", ".", ".", "b", "@", "a", ".", "a", "a">>),
        Str(<<"a", "@", "b">>),
        Str(<<"a", "@", "a", ".", ".", "a", "a">>),
        Str(<<"a", " ", "@", "a", ".", "a", "a">>),
        Str(Repeat("a", 65) \o <<"@", "a", ".", "a", "a">>),
        Str(<<"a", "@">> \o Repeat("a", 256) \o <<".", "a", "a">>)}
  \cup NonStrings

EmailToggles ==
  {<<"strict", FALSE>>, <<"allowInternational", FALSE>>, <<"maxLength", 3>>,
   <<"maxLength", 1000>>,
   <<"allowedDomains", {<<"a", ".", "a", "a">>}>>,
   <<"blockedDomains", {<<"a", ".", "a", "a">>}>>}

EmailOptions ==
  Override(EmailDefaults, EmailToggles)
  \cup Override2(EmailDefaults, {<<"strict", FALSE>>},
                 {<<"allowInternational", FALSE>>, <<"maxLength", 1000>>})

\* The object graphs: MaxNodes objects, the root being object 1.
HeapValues == {Num(1)} \cup {Ref(i) : i \in 1..MaxNodes}

ObjectNode(keys, vals) == [kind |-> "object", keys |-> keys, vals |-> vals]
ArrayNode(vals) ==
  [kind |-> "array", keys |-> [i \in 1..Len(vals) |-> IF i = 1 THEN "0" ELSE "1"],
   vals |-> vals]

InnerShapes ==
  {ObjectNode(<<>>, <<>>), ObjectNode(<<"__proto__">>, <<Num(1)>>)}
  \cup {ObjectNode(<<"a">>, <<v>>) : v \in HeapValues}
  \cup {ArrayNode(<<v>>) : v \in HeapValues}

RootShapes ==
  InnerShapes
  \cup {ObjectNode(<<"__proto__">>, <<v>>) : v \in HeapValues}
  \cup {ObjectNode(<<"a", "b">>, <<v, w>>) : v \in HeapValues, w \in HeapValues}
  \cup {ObjectNode(<<"a", "__proto__">>, <<v, Num(1)>>) : v \in HeapValues}

Heaps ==
  {[i \in 1..MaxNodes |-> IF i = 1 THEN r ELSE f[i]] :
     r \in RootShapes, f \in [2..MaxNodes -> InnerShapes]}
  \cup {<<ObjectNode(<<"__x", "myPrototype", "a">>, <<Num(1), Num(1), Num(1)>>)>>,
        <<ObjectNode(<<"constructor", "a">>, <<Num(1), Num(1)>>)>>}

ObjectPrimaryToggles ==
  {<<"preventPrototypePollution", FALSE>>, <<"strict", TRUE>>}

ObjectToggles ==
  ObjectPrimaryToggles \cup
  {<<"allowNull", TRUE>>, <<"allowArray", TRUE>>, <<"maxDepth", 1>>,
   <<"maxKeys", 1>>, <<"requiredKeys", <<"a">>>>,
   <<"requiredKeys", <<"b", "toString", "c">>>>,
   <<"allowedKeys", {"a"}>>, <<"forbiddenKeys", {"a", "__proto__"}>>,
   <<"keyPattern", [kind |-> "all", chars |-> {"a", "b", "__proto__"}]>>,
   <<"schema", "accept">>, <<"schema", "reject">>,
   <<"maxPropertyNameLength", 1>>}

ObjectOptions ==
  Override(ObjectDefaults, ObjectToggles)
  \cup Override2(ObjectDefaults, ObjectPrimaryToggles, ObjectToggles)

\* The already-parsed structures and the JSON texts given to validateJson.
JsonHeaps ==
  {h \in Heaps : h[1].keys \notin {<<"a", "b">>, <<"a", "__proto__">>}}
  \cup {<<ObjectNode(<<"a", "b">>, <<Num(1), Num(1)>>)>>}

JsonWellFormed ==
  {JsonStringify(h, Ref(1)).toks :
     h \in {g \in JsonHeaps : JsonStringify(g, Ref(1)).ok}}
  \cup {<<NumTok(1)>>, <<Tok("null")>>, <<Tok("Q"), Bare("a"), Tok("Q")>>,
        <<Tok("Q"), Pad(3), Tok("Q")>>,
        <<Tok("Q"), Tok("EQ"), Tok("{"), Tok("Q")>>,
        <<Tok("["), NumTok(1), Tok(","), Tok("null"), Tok("]")>>,
        <<Tok("{"), Tok("Q"), Tok("Q"), Tok(":"), Tok("Q"), Tok("Q"), Tok("}")>>}

JsonTexts ==
  JsonWellFormed
  \cup {SubSeq(t, 1, Len(t) - 1) : t \in JsonWellFormed}
  \cup {<<Bare("a")>>, <<Tok("{"), Tok("Q"), Bare("a"), Tok("Q"), Tok("}")>>,
        <<NumTok(1), NumTok(1), Tok(",")>>}

JsonPrimaryToggles ==
  {<<"securityMode", "fast">>, <<"securityMode", "strict">>,
   <<"useCache", TRUE>>}

JsonToggles ==
  JsonPrimaryToggles \cup
  {<<"maxDepth", 0>>, <<"maxDepth", 1>>, <<"maxKeys", 1>>,
   <<"maxStringLength", 2>>, <<"maxArrayLength", 0>>,
   <<"allowedTypes", {"object", "array", "string", "boolean", "null"}>>,
   <<"forbiddenKeys", {"a"}>>, <<"schema", "accept">>, <<"schema", "reject">>,
   <<"preventCircular", FALSE>>, <<"maxSize", 3>>, <<"ajv", "reject">>,
   <<"enableMetrics", TRUE>>}

JsonOptions ==
  Override(JsonDefaults, JsonToggles)
  \cup Override2(JsonDefaults, JsonPrimaryToggles, JsonToggles)

\* The addresses given to validateIp.
Dotted(a, b, c, d) == a \o <<".">> \o b \o <<".">> \o c \o <<".">> \o d

IPv4Texts ==
  {Dotted(a, b, c, <<"1">>) :
     a \in {<<"1", "0">>, <<"1", "2", "7">>, <<"1", "7", "2">>,
            <<"1", "9", "2">>, <<"1", "6", "9">>, <<"2", "2", "4">>,
            <<"2", "3", "9">>, <<"2", "4", "0">>, <<"2", "5", "5">>,
            <<"0">>, <<"8">>, <<"1", "9", "8">>, <<"2", "0", "3">>,
            <<"0", "1", "0">>, <<"2", "5", "6">>},
     b \in {<<"0">>, <<"1", "6">>, <<"3", "1">>, <<"3", "2">>,
            <<"1", "6", "8">>, <<"2", "5", "4">>, <<"5", "1">>},
     c \in {<<"0">>, <<"2">>, <<"1", "0", "0">>, <<"1", "1", "3">>}}

IPv6Texts ==
  {<<":", ":", "1">>, <<":", ":">>, <<"1", ":", ":">>,
   <<"0", ":", "0", ":", "0", ":", "0", ":", "0", ":", "0", ":", "0", ":", "1">>,
   <<"f", "c", "0", "0", ":", ":", "1">>, <<"f", "d", "0", "0", ":", ":", "1">>,
   <<"f", "d", "1", "2", ":", ":", "1">>, <<"f", "c", "0", "1", ":", ":", "1">>,
   <<"F", "E", "8", "0", ":", ":", "1">>, <<"f", "e", "8", "1", ":", ":", "1">>,
   <<"f", "e", "9", "0", ":", ":", "1">>, <<"f", "e", "c", "0", ":", ":", "1">>,
   <<"f", "f", "0", "0", ":", ":", "1">>, <<"f", "f", "0", "2", ":", ":", "1">>,
   <<"2", "0", "0", "1", ":", "d", "b", "8", ":", ":", "1">>,
   <<"2", "0", "0", "1", ":", "d", "b", "9", ":", ":", "1">>,
   <<":", "1">>, <<"1", ":", ":", "1", ":", ":", "1">>,
   <<"1", "2", "3", "4", "5", ":", ":">>}

IpTexts ==
  IPv4Texts \cup IPv6Texts
  \cup {<<" ">> \o t \o <<" ">> :
          t \in {Dotted(<<"1", "0">>, <<"0">>, <<"0">>, <<"1">>),
                 <<":", ":", "1">>}}
  \cup {t \o <<"/">> \o p :
          t \in {Dotted(<<"1", "0">>, <<"0">>, <<"0">>, <<"1">>),
                 <<":", ":", "1">>, <<"1">>},
          p \in {<<>>, <<"8">>, <<"3", "3">>, <<"1", "2", "9">>, <<"a">>,
                 <<"8", "/", "8">>}}
  \cup {<<>>, <<"y">>, <<"1", ".", "2", ".", "3">>, <<"/">>}
  \cup {Dotted(<<"8">>, <<"8">>, <<"8">>, <<"8">>),
        Dotted(<<"3", "0", "0">>, <<"1">>, <<"1">>, <<"1">>)}

IpPrimaryToggles ==
  {<<"allowCIDR", TRUE>>, <<"allowPrivate", FALSE>>, <<"strict", FALSE>>}

IpToggles ==
  IpPrimaryToggles \cup
  {<<"version", "v4">>, <<"version", "v6">>, <<"allowLoopback", FALSE>>,
   <<"allowMulticast", TRUE>>, <<"allowReserved", FALSE>>,
   <<"blockBogons", TRUE>>, <<"allowDocumentation", FALSE>>}

IpOptions ==
  Override(IpDefaults, IpToggles)
  \cup Override2(IpDefaults, IpPrimaryToggles, IpToggles)

\* The batches given to validateBatch.
BatchItems ==
  {[v |-> Str(<<"a", "@", "a", ".", "a", "a">>), mode |-> m] :
     m \in {"prompt", "slow", "throws"}}
  \cup {[v |-> Str(<<"A", "@", "a">>), mode |-> m] : m \in {"prompt", "slow"}}

BatchOptions ==
  {[continueOnError |-> c, maxConcurrency |-> m] :
     c \in BOOLEAN, m \in {1, 2, 10}}

(***************************************************************************)
(* The calls.  A call runs to completion: the validators are synchronous,  *)
(* and the continuation of an async wrapper runs before any timer.         *)
(***************************************************************************)
NoOptions == <<>>

Init ==
  /\ pc = "idle"
  /\ op = "none"
  /\ input = Undefined
  /\ heap = NoHeap
  /\ opts = NoOptions
  /\ outcome = "none"
  /\ result = NoResult
  /\ cache = EmptyCache
  /\ metrics = NoMetrics
  /\ batch = NoBatch
  /\ awaiting = <<>>

\* validateText(value, options); the options record is the caller's and
\* keeps what the call did to its pattern objects
CallValidateText ==
  /\ pc = "idle"
  /\ \E v \in TextValues, o \in TextOptions :
       LET r == validateTextSync(v, o)
       IN /\ input' = v
          /\ opts' = TextOptionsAfter(v, o)
          /\ result' = r
          /\ metrics' = IF o.enableMetrics
                        THEN MetricsRecord(metrics, "validateText", ~r.success)
                        ELSE metrics
  /\ pc' = "done"
  /\ op' = "validateText"
  /\ outcome' = "returned"
  /\ UNCHANGED <<heap, cache, batch, awaiting>>

\* validateText called a second time with the same value and the very same
\* options record
CallValidateTextAgain ==
  /\ pc = "done"
  /\ op = "validateText"
  /\ opts.enableMetrics => metrics.validateText.count < MaxMetered
  /\ LET r == validateTextSync(input, opts)
     IN /\ result' = r
        /\ opts' = TextOptionsAfter(input, opts)
        /\ metrics' = IF opts.enableMetrics
                      THEN MetricsRecord(metrics, "validateText", ~r.success)
                      ELSE metrics
  /\ UNCHANGED <<pc, op, input, outcome, heap, cache, batch, awaiting>>

\* validateEmail(value, options)
CallValidateEmail ==
  /\ pc = "idle"
  /\ \E v \in EmailValues, o \in EmailOptions :
       /\ input' = v
       /\ opts' = o
       /\ result' = validateEmail(v, o)
  /\ pc' = "done"
  /\ op' = "validateEmail"
  /\ outcome' = "returned"
  /\ UNCHANGED <<heap, cache, metrics, batch, awaiting>>

\* validateObject(value, options) on an object of a heap
CallValidateObject ==
  /\ pc = "idle"
  /\ \E h \in Heaps, o \in ObjectOptions :
       /\ input' = Ref(1)
       /\ heap' = h
       /\ opts' = o
       /\ result' = validateObject(h, Ref(1), o)
  /\ pc' = "done"
  /\ op' = "validateObject"
  /\ outcome' = "returned"
  /\ UNCHANGED <<cache, metrics, batch, awaiting>>

\* validateObject(value, options) on a value that is no object
CallValidateObjectPrimitive ==
  /\ pc = "idle"
  /\ \E v \in NonStrings \cup {Str(<<"a">>)}, o \in ObjectOptions :
       /\ input' = v
       /\ opts' = o
       /\ result' = validateObject(NoHeap, v, o)
  /\ pc' = "done"
  /\ op' = "validateObject"
  /\ outcome' = "returned"
  /\ UNCHANGED <<heap, cache, metrics, batch, awaiting>>

\* validateJson(value, options) on an already-parsed structure
CallValidateJsonObject ==
  /\ pc = "idle"
  /\ \E h \in JsonHeaps, o \in JsonOptions :
       \E r \in {validateJson(h, Ref(1), o, cache, metrics)} :
          /\ input' = Ref(1)
          /\ opts' = o
          /\ heap' = r.heap
          /\ outcome' = r.outcome
          /\ result' = r.result
          /\ cache' = r.cache
          /\ metrics' = r.metrics
  /\ pc' = "done"
  /\ op' = "validateJson"
  /\ UNCHANGED <<batch, awaiting>>

\* validateJson(value, options) on a string or another primitive
CallValidateJsonText ==
  /\ pc = "idle"
  /\ \E v \in {Str(t) : t \in JsonTexts} \cup NonStrings, o \in JsonOptions :
       \E r \in {validateJson(NoHeap, v, o, cache, metrics)} :
          /\ input' = v
          /\ opts' = o
          /\ heap' = r.heap
          /\ outcome' = r.outcome
          /\ result' = r.result
          /\ cache' = r.cache
          /\ metrics' = r.metrics
  /\ pc' = "done"
  /\ op' = "validateJson"
  /\ UNCHANGED <<batch, awaiting>>

\* validateIp(value, options)
CallValidateIp ==
  /\ pc = "idle"
  /\ \E v \in {Str(t) : t \in IpTexts} \cup NonStrings, o \in IpOptions :
       /\ input' = v
       /\ opts' = o
       /\ result' = validateIp(v, o)
  /\ pc' = "done"
  /\ op' = "validateIp"
  /\ outcome' = "returned"
  /\ UNCHANGED <<heap, cache, metrics, batch, awaiting>>

\* validateBatch(values, validator, options): the windows are created, the
\* timer is armed and the first window is started
BatchStart ==
  /\ pc = "idle"
  /\ \E values \in SeqsUpTo(BatchItems, MaxBatch), o \in BatchOptions :
       LET b == Settled(Launch(
                  [NoBatch EXCEPT
                     !.values = values, !.o = o,
                     !.batches = CreateBatches(Len(values), 0, o.maxConcurrency),
                     !.loop = "running", !.timer = "armed"]))
       IN /\ batch' = b
          /\ pc' = IF b.timer = "cleared" THEN "done" ELSE "batch"
          /\ outcome' = IF b.timer = "cleared" THEN "returned" ELSE "none"
  /\ op' = "validateBatch"
  /\ UNCHANGED <<input, heap, opts, result, cache, metrics,
               awaiting>>

\* a slow validator call of the current window settles
BatchSettle ==
  /\ batch.loop = "running"
  /\ \E p \in batch.pending :
       batch' = [batch EXCEPT !.pending = @ \ {p}, !.settled = Append(@, p)]
  /\ UNCHANGED <<pc, op, input, heap, opts, outcome, result, cache, metrics,
               awaiting>>

\* Promise.all of the current window has resolved: its entries are pushed
\* in input order, and the loop breaks, goes on or ends
BatchAdvance ==
  /\ batch.loop = "running"
  /\ batch.pending = {}
  /\ LET window == batch.batches[batch.k]
         batchResults == PromiseAll(window, batch.settled, batch.values)
         pushed == [batch EXCEPT !.results = batch.results \o batchResults]
         stop == ShouldBreak(batch.o, batchResults)
         b == Settled(IF stop THEN [pushed EXCEPT !.loop = "finished"]
                      ELSE Launch(pushed))
     IN /\ batch' = b
        /\ pc' = IF b.timer = "cleared" THEN "done" ELSE pc
        /\ outcome' = IF b.timer = "cleared" THEN "returned" ELSE outcome
  /\ UNCHANGED <<op, input, heap, opts, result, cache, metrics,
               awaiting>>

\* the timer fires while the loop awaits a window: the catch block fills
\* results and the batch returns; the loop itself is not stopped
BatchTimeout ==
  /\ pc = "batch"
  /\ batch.timer = "armed"
  /\ batch.pending # {}
  /\ LET filled == TimeoutEntries(batch.values, batch.results, 0,
                                  Len(batch.values) - Len(batch.results))
     IN batch' = [batch EXCEPT !.timer = "fired", !.results = filled,
                               !.summary = Summary(filled)]
  /\ pc' = "done"
  /\ outcome' = "returned"
  /\ UNCHANGED <<op, input, heap, opts, result, cache, metrics,
               awaiting>>

\* clearCache(), resetMetrics(), and the caller is ready for its next call
Reset ==
  /\ pc = "done"
  /\ pc' = "idle"
  /\ op' = "none"
  /\ input' = Undefined
  /\ heap' = NoHeap
  /\ opts' = NoOptions
  /\ outcome' = "none"
  /\ result' = NoResult
  /\ cache' = EmptyCache
  /\ metrics' = NoMetrics
  /\ batch' = NoBatch
  /\ awaiting' = <<>>

Next ==
  \/ CallValidateText
  \/ CallValidateTextAgain
  \/ CallValidateEmail
  \/ CallValidateObject
  \/ CallValidateObjectPrimitive
  \/ CallValidateJsonObject
  \/ CallValidateJsonText
  \/ CallValidateIp
  \/ BatchStart
  \/ BatchSettle
  \/ BatchAdvance
  \/ BatchTimeout
  \/ Reset

Spec == Init /\ [][Next]_vars

(***************************************************************************)
(* Sequences of validateJson calls on one cache.  A caller that does not   *)
(* await starts its next call while earlier ones are suspended at          *)
(* `await this.withTimeout(...)`; the cache and the metrics live on from   *)
(* call to call until clearCache() and resetMetrics().                     *)
(***************************************************************************)
CacheHeap == <<ObjectNode(<<"a">>, <<Num(1)>>)>>

\* a JSON string literal of more than 100 characters; followed by a bare
\* word it is no JSON text, yet both serialize alike up to character 100
LongText == <<Tok("Q"), Pad(100), Tok("Q")>>

CacheValues ==
  {[heap |-> NoHeap, value |-> v] :
     v \in {Str(<<NumTok(1)>>), Str(JsonStringify(CacheHeap, Ref(1)).toks),
            Str(<<Bare("a")>>), Undefined, Str(LongText),
            Str(LongText \o <<Bare("a")>>)}}
  \cup {[heap |-> CacheHeap, value |-> Ref(1)]}

CacheOptions ==
  Override([JsonDefaults EXCEPT !.useCache = TRUE],
           {<<"enableMetrics", TRUE>>, <<"forbiddenKeys", {"a"}>>,
            <<"useCache", FALSE>>})

\* the calls that have recorded or will record a metric
Metered ==
  metrics.validateJson.count
  + Cardinality({i \in 1..Len(awaiting) :
                   awaiting[i].kind = "computed" /\ awaiting[i].o.enableMetrics})

\* validateJson(value, options) up to the point where its promise is handed
\* to the caller: the key is built and the cache is looked up; on a miss
\* withTimeout arms its timer, validateJsonSync runs inside it and the call
\* is suspended at its await.  kind tells how the promise will settle.
JsonCall ==
  /\ Len(cache) + Len(awaiting) < MaxCache
  /\ \E a \in CacheValues, o \in CacheOptions :
       /\ o.enableMetrics => Metered < MaxMetered
       /\ \E cacheKey \in {IF o.useCache THEN JsonCacheKey(a.heap, a.value, o)
                           ELSE [throws |-> FALSE, key |-> <<>>]} :
            IF cacheKey.throws
            THEN awaiting' =
                   Append(awaiting,
                          [kind |-> "rejected", op |-> "validateJson",
                           timer |-> "none", value |-> a.value, o |-> o,
                           key |-> <<>>, result |-> NoResult, heap |-> a.heap])
            ELSE IF o.useCache /\ CacheHas(cache, cacheKey.key)
            THEN awaiting' =
                   Append(awaiting,
                          [kind |-> "cached", op |-> "validateJson",
                           timer |-> "none", value |-> a.value, o |-> o,
                           key |-> cacheKey.key,
                           result |-> CacheGet(cache, cacheKey.key),
                           heap |-> a.heap])
            ELSE \E run \in {validateJsonSyncRun(a.heap, a.value, o)} :
                   awaiting' =
                     Append(awaiting,
                            [kind |-> "computed", op |-> "validateJson",
                             timer |-> "armed", value |-> a.value, o |-> o,
                             key |-> cacheKey.key, result |-> Finish(run),
                             heap |-> IF run.heap = <<>> THEN a.heap
                                      ELSE run.heap])
  /\ pc' = "idle"
  /\ op' = "validateJson"
  /\ UNCHANGED <<input, opts, heap, outcome, result, cache, metrics, batch>>

\* the oldest promise settles and its caller goes on.  A computed call
\* resumes after its await: the metric is recorded and a successful result
\* is stored; a cached result and a rejection are only delivered.
JsonContinue ==
  /\ awaiting # <<>>
  /\ Head(awaiting).op = "validateJson"
  /\ \E call \in {Head(awaiting)} :
       /\ input' = call.value
       /\ opts' = call.o
       /\ heap' = call.heap
       /\ result' = call.result
       /\ outcome' = IF call.kind = "rejected" THEN "rejected" ELSE "returned"
       /\ metrics' = IF call.kind = "computed"
                     THEN JsonMeter(metrics, call.result, call.o) ELSE metrics
       /\ cache' = IF call.kind = "computed"
                   THEN JsonStore(cache, call.key, call.result, call.o)
                   ELSE cache
  /\ awaiting' = Tail(awaiting)
  /\ pc' = "done"
  /\ op' = "validateJson"
  /\ UNCHANGED batch

\* clearCache() and resetMetrics() between two calls
ClearCache ==
  /\ cache # EmptyCache \/ metrics # NoMetrics
  /\ cache' = EmptyCache
  /\ metrics' = NoMetrics
  /\ UNCHANGED <<pc, op, input, heap, opts, outcome, result, batch, awaiting>>

CacheNext ==
  \/ JsonCall
  \/ JsonContinue
  \/ ClearCache

CacheSpec == Init /\ [][CacheNext]_vars

(***************************************************************************)
(* validateBatch with the loop that creates the windows taken one          *)
(* iteration at a time, for every maxConcurrency.  The loop is synchronous *)
(* and runs before withTimeout is called: no timer is armed while it runs. *)
(* Of the windows only the first MaxWindows are recorded, and an index     *)
(* below -values.length is recorded as -values.length, every such index    *)
(* slicing the same (empty) window.                                        *)
(***************************************************************************)
LiveBatchOptions ==
  {[continueOnError |-> c, maxConcurrency |-> m] :
     c \in BOOLEAN, m \in {-1, 0, 1, 2}}

\* the positions of values.slice(start, end) for an array of n values
Slice(n, start, end) ==
  LET from == IF start < 0 THEN (IF n + start < 0 THEN 0 ELSE n + start)
              ELSE (IF start > n THEN n ELSE start)
      to == IF end < 0 THEN (IF n + end < 0 THEN 0 ELSE n + end)
            ELSE (IF end > n THEN n ELSE end)
  IN [j \in 1..(to - from) |-> from + j]

\* validateBatch(values, validator, options) up to the first test of
\* `i < values.length`
BatchBegin ==
  /\ pc = "idle"
  /\ \E values \in SeqsUpTo(BatchItems, MaxBatch), o \in LiveBatchOptions :
       batch' = [NoBatch EXCEPT !.values = values, !.o = o, !.loop = "windows"]
  /\ pc' = "windows"
  /\ op' = "validateBatch"
  /\ UNCHANGED <<input, heap, opts, outcome, result, cache, metrics, awaiting>>

\* i < values.length: the loop body is entered, or the loop is left, the
\* timer is armed and the first window is started
BatchWindowTest ==
  /\ pc = "windows"
  /\ IF batch.i < Len(batch.values)
     THEN /\ pc' = "push"
          /\ UNCHANGED <<batch, outcome>>
     ELSE LET b == Settled(Launch([batch EXCEPT !.loop = "running",
                                               !.timer = "armed"]))
          IN /\ batch' = b
             /\ pc' = IF b.timer = "cleared" THEN "done" ELSE "batch"
             /\ outcome' = IF b.timer = "cleared" THEN "returned" ELSE "none"
  /\ UNCHANGED <<op, input, heap, opts, result, cache, metrics, awaiting>>

\* batches.push(values.slice(i, i + maxConcurrency)); i += maxConcurrency
BatchWindowPush ==
  /\ pc = "push"
  /\ LET n == Len(batch.values)
         m == batch.o.maxConcurrency
         window == Slice(n, batch.i, batch.i + m)
     IN batch' = [batch EXCEPT
                    !.batches = IF Len(@) < MaxWindows THEN Append(@, window)
                                ELSE @,
                    !.i = IF batch.i + m < -n THEN -n ELSE batch.i + m]
  /\ pc' = "windows"
  /\ UNCHANGED <<op, input, heap, opts, outcome, result, cache, metrics,
                 awaiting>>

BatchLiveNext ==
  \/ BatchBegin
  \/ BatchWindowTest
  \/ BatchWindowPush
  \/ BatchSettle
  \/ BatchAdvance
  \/ BatchTimeout

\* WF_vars(BatchAdvance) written out: BatchAdvance is enabled exactly when
\* the loop is running with no call pending, and every step of it changes
\* the batch
BatchAdvanceFair ==
  \/ []<>~(batch.loop = "running" /\ batch.pending = {})
  \/ []<><<BatchAdvance>>_vars

\* the synchronous loop goes on by itself, every validator call settles,
\* and a resolved Promise.all resumes the loop
BatchLiveSpec ==
  /\ Init
  /\ [][BatchLiveNext]_vars
  /\ WF_vars(BatchWindowTest)
  /\ WF_vars(BatchWindowPush)
  /\ WF_vars(BatchSettle)
  /\ BatchAdvanceFair

(***************************************************************************)
(* withTimeout under the event loop: a timer callback runs only when no    *)
(* promise job is queued.  One call is under way at a time; the timer may  *)
(* expire at any moment, which covers every timeout value, 0 included.     *)
(***************************************************************************)
\* the operation of a suspended call never settles by itself
OperationStillRunning(call) == FALSE

\* operation() is `async () => this.validateTextSync(value, options)` (or
\* validateJsonSync): the validator has run to its end when operation()
\* returns, its promise is fulfilled and `.then` queues its job at once
OperationSettled(call) == TRUE

\* validateText(value, options) up to its await: withTimeout arms its timer
\* and validateTextSync runs inside it
TextCall ==
  /\ pc = "idle"
  /\ awaiting = <<>>
  /\ \E v \in TextValues, o \in TextOptions :
       awaiting' = <<[kind |-> "computed", op |-> "validateText",
                      timer |-> "armed", value |-> v,
                      o |-> TextOptionsAfter(v, o), key |-> <<>>,
                      result |-> validateTextSync(v, o), heap |-> NoHeap]>>
  /\ op' = "validateText"
  /\ UNCHANGED <<pc, input, opts, heap, outcome, result, cache, metrics, batch>>

\* the promise job of withTimeout: clearTimeout(timer), resolve(result),
\* and validateText resumes after its await
TextContinue ==
  /\ awaiting # <<>>
  /\ Head(awaiting).op = "validateText"
  /\ OperationSettled(Head(awaiting))
  /\ \E call \in {Head(awaiting)} :
       /\ input' = call.value
       /\ opts' = call.o
       /\ result' = call.result
       /\ metrics' = IF call.o.enableMetrics
                     THEN MetricsRecord(metrics, "validateText",
                                        ~call.result.success)
                     ELSE metrics
  /\ awaiting' = Tail(awaiting)
  /\ outcome' = "returned"
  /\ pc' = "done"
  /\ UNCHANGED <<op, heap, cache, batch>>

\* one validateJson call at a time
SingleJsonCall == awaiting = <<>> /\ pc = "idle" /\ JsonCall

SingleBatchStart == awaiting = <<>> /\ BatchStart

\* the timer wins the race of a validateText or validateJson call: reject,
\* and the catch block of the caller returns the failure
CallTimeout ==
  /\ awaiting # <<>>
  /\ Head(awaiting).timer = "armed"
  /\ ~OperationSettled(Head(awaiting))
  /\ \E call \in {Head(awaiting)} :
       /\ input' = call.value
       /\ opts' = call.o
       /\ heap' = call.heap
       /\ result' =
            [success |-> FALSE,
             errors |-> <<Err(IF call.op = "validateText" THEN "UNKNOWN_ERROR"
                              ELSE "Error", "Validation timeout")>>,
             warnings |-> <<>>, data |-> call.value, ran |-> <<>>]
       /\ metrics' = IF call.o.enableMetrics
                     THEN MetricsRecord(metrics, call.op, TRUE) ELSE metrics
  /\ awaiting' = Tail(awaiting)
  /\ outcome' = "returned"
  /\ pc' = "done"
  /\ UNCHANGED <<op, cache, batch>>

\* setTimeout's callback of withTimeout runs: the event loop takes a timer
\* only when no promise job is queued
TimerFires ==
  IF op = "validateBatch" THEN BatchTimeout ELSE CallTimeout

TimerNext ==
  \/ TextCall
  \/ TextContinue
  \/ SingleJsonCall
  \/ JsonContinue
  \/ SingleBatchStart
  \/ BatchSettle
  \/ BatchAdvance
  \/ TimerFires
  \/ Reset

TimerSpec == Init /\ [][TimerNext]_vars

(***************************************************************************)
(* Properties.                                                             *)
(***************************************************************************)
Primitives ==
  {"validateText", "validateJson", "validateIp", "validateObject",
   "validateEmail"}

\* a primitive validator has returned its result
Returned == pc = "done" /\ outcome = "returned" /\ op \in Primitives

Checks(r) == {r.ran[i].check : i \in 1..Len(r.ran)}
FailedChecks(r) == {r.ran[i].check : i \in {j \in 1..Len(r.ran) : r.ran[j].failed}}
ReachedEnd(r) == Len(r.ran) > 0 /\ r.ran[Len(r.ran)].check = "end"
Codes(r) == {r.errors[i].code : i \in 1..Len(r.errors)}
Messages(r) == {r.errors[i].message : i \in 1..Len(r.errors)}

\* C1: every primitive validator returns (or resolves to) a result and
\* never throws or rejects, validateJson with useCache on a value that
\* cannot be serialized included.
C1_Total == (pc = "done" /\ op \in Primitives) => outcome = "returned"

\* C2: a string longer than maxLength given to the text validator yields
\* exactly one error, the length violation, and no warning; data is the
\* unmodified input and no stage after the size guard has run.
C2_SizeGuardPrecedence ==
  (Returned /\ op = "validateText" /\ input.t = "string"
     /\ Len(input.s) > opts.maxLength)
  => /\ Len(result.errors) = 1
     /\ result.errors[1].code = "STRING_TOO_LONG"
     /\ result.warnings = <<>>
     /\ result.data = input
     /\ ~result.success
     /\ result.ran = <<[check |-> "type", failed |-> FALSE],
                       [check |-> "maxLength", failed |-> TRUE]>>

C2_Witness ==
  /\ Returned /\ op = "validateText" /\ input.t = "string"
  /\ Len(input.s) > opts.maxLength
  /\ opts.trimWhitespace
  /\ AnyChar(input.s, XSS_PATTERNS \cup SQL_PATTERNS \cup WhitespaceChars)
  /\ Len(result.errors) = 1

\* C3: in every result of the validators, and in every entry of the
\* results of validateBatch, success is false exactly when errors is
\* non-empty.
C3_SuccessIffNoErrors ==
  /\ Returned => (result.success <=> result.errors = <<>>)
  /\ \A i \in 1..Len(batch.results) :
       batch.results[i].success <=> batch.results[i].errors = <<>>

C3_Witness ==
  /\ pc = "done" /\ op = "validateBatch" /\ batch.timer = "fired"
  /\ \E i, j, k \in 1..Len(batch.results) :
       /\ batch.results[i].success
       /\ "Batch validation timeout" \in Messages(batch.results[j])
       /\ Len(batch.results[k].errors) >= 1
       /\ batch.results[k].ran # <<>>

\* C4 as stated: only the wrong-top-level-type check and the oversized-input
\* check stop the pipeline; after any other failing check the call runs to
\* its last check.
DocumentedStops == {"type", "null", "array", "maxLength", "maxSize"}

StoppingChecks ==
  [validateText |-> {"type", "maxLength", "empty"},
   validateEmail |-> {"type", "maxLength", "atCount", "emptyParts"},
   validateObject |-> {"null", "array", "type", "pollution"},
   validateIp |-> {"type", "characters", "cidrAllowed", "cidrFormat",
                   "cidrNumeric", "version"},
   validateJson |-> {"type", "maxSize", "parse", "pollution", "strict",
                     "circular"}]

C5_FailureKeepsInput ==
  (Returned /\ op \in {"validateEmail", "validateJson", "validateText"}
     /\ ~result.success)
  => result.data = input

\* the same validator applied to result.data with the same options
Revalidated ==
  CASE op = "validateText" -> validateTextSync(result.data, opts)
    [] op = "validateEmail" -> validateEmail(result.data, opts)
    [] op = "validateIp" -> validateIp(result.data, opts)
    [] op = "validateObject" -> validateObject(heap, result.data, opts)
    [] op = "validateJson" -> validateJsonSync(heap, result.data, opts)
    [] OTHER -> result

\* C6: validating the data of a successful result again with the same
\* options succeeds and returns that data unchanged.
C6_Idempotent ==
  (Returned /\ result.success)
  => (Revalidated.success /\ Revalidated.data = result.data)

AdvisoryChecks ==
  {"trim", "normalize", "sql", "control", "disposable", "key.suspicious"}
  \cup (IF op = "validateObject" /\ ~opts.strict THEN {"key.allowed"} ELSE {})

AdvisoryMessages ==
  {"Whitespace trimmed from text", "Unicode characters normalized",
   "Text contains SQL-like patterns", "Text contains control characters",
   "Email appears to be temporary or test address",
   "Suspicious property name detected"}

\* C7: an advisory check only appends to warnings: it never records a
\* failure or an error, and a result whose findings are all advisory
\* (warnings but no error) reports success.
C7_WarningsNeverFail ==
  Returned =>
    /\ FailedChecks(result) \cap AdvisoryChecks = {}
    /\ Messages(result) \cap AdvisoryMessages = {}
    /\ (result.errors = <<>> /\ result.warnings # <<>>) => result.success

C7_Witness ==
  /\ Returned /\ op = "validateText" /\ result.success
  /\ Len(result.warnings) >= 2
  /\ opts.preventSQLInjection /\ AnyChar(input.s, SQL_PATTERNS)

\* C8: a result whose data differs from the input carries a warning that
\* notes the mutation.
C8_MutationExplained ==
  (Returned /\ result.data # input) => result.warnings # <<>>

\* the denylisted names are own properties somewhere in the graph of the
\* root object
DangerousInGraph ==
  \E id \in Reachable(heap, {input.n}) :
     SeqToSet(heap[id].keys) \cap DANGEROUS_PROPERTIES # {}

\* C9: with preventPrototypePollution on, a plain object whose graph holds
\* an own property with a denylisted name at any depth fails with a
\* SecurityViolation error.
C9_PollutionGuardOn ==
  (Returned /\ op = "validateObject" /\ IsObject(input)
     /\ heap[input.n].kind = "object" /\ opts.preventPrototypePollution
     /\ DangerousInGraph)
  => (~result.success /\ "SECURITY_VIOLATION" \in Codes(result))

C9_Witness ==
  /\ Returned /\ op = "validateObject" /\ IsObject(input)
  /\ heap[input.n].kind = "object" /\ opts.preventPrototypePollution
  /\ SeqToSet(heap[input.n].keys) \cap DANGEROUS_PROPERTIES = {}
  /\ DangerousInGraph
  /\ ~result.success

\* C10: with preventPrototypePollution off, an object whose own property
\* __proto__ violates no other configured rule is accepted.
C10_PollutionGuardOff ==
  (Returned /\ op = "validateObject" /\ IsObject(input)
     /\ opts = [ObjectDefaults EXCEPT !.preventPrototypePollution = FALSE]
     /\ heap[input.n].kind = "object"
     /\ heap[input.n].keys = <<"__proto__">>)
  => result.success

\* the first sixteen bits of the dotted literal the caller passed
Literal4 == Trim(input.s)
High16 ==
  LET parts == Split(Literal4, ".")
  IN ParseInt(parts[1]) * 256 + ParseInt(parts[2])

\* the address is in base/prefix, base being given by its first 16 bits
InBlock16(base, prefix) ==
  High16 \div (2 ^ (16 - prefix)) = base \div (2 ^ (16 - prefix))

\* 10.0.0.0/8, 172.16.0.0/12, 192.168.0.0/16, 169.254.0.0/16
InPrivateRange4 ==
  \/ InBlock16(10 * 256, 8)
  \/ InBlock16(172 * 256 + 16, 12)
  \/ InBlock16(192 * 256 + 168, 16)
  \/ InBlock16(169 * 256 + 254, 16)

PrivateRecorded == "Private IPv4 addresses not allowed" \in Messages(result)

\* validateIp has returned on a string that is a valid IPv4 literal
ValidIPv4Call ==
  /\ Returned /\ op = "validateIp" /\ input.t = "string"
  /\ validateIPv4(Literal4, opts.strict)

Public8888 == Str(Dotted(<<"8">>, <<"8">>, <<"8">>, <<"8">>))

\* C11 as stated: with allowPrivate=false, a valid IPv4 address gets the
\* private-address violation exactly when it lies in 10.0.0.0/8,
\* 172.16.0.0/12, 192.168.0.0/16 or 169.254.0.0/16, whatever the other
\* options; and 8.8.8.8 with default options succeeds without errors.
C11_PrivateExactAnyVersion ==
  /\ (ValidIPv4Call /\ ~opts.allowPrivate)
       => (PrivateRecorded <=> InPrivateRange4)
  /\ (Returned /\ op = "validateIp" /\ input = Public8888 /\ opts = IpDefaults)
       => (result.success /\ result.errors = <<>>)

\* C11: the same exactness, for the calls whose requested version admits
\* IPv4 (version "v4" or "both"): with version "v6" the call returns on the
\* version check and no range rule is applied.
C11_PrivateExact ==
  /\ (ValidIPv4Call /\ ~opts.allowPrivate /\ opts.version # "v6")
       => (PrivateRecorded <=> InPrivateRange4)
  /\ (ValidIPv4Call /\ (opts.allowPrivate \/ opts.version = "v6"))
       => ~PrivateRecorded
  /\ (Returned /\ op = "validateIp" /\ input = Public8888 /\ opts = IpDefaults)
       => (result.success /\ result.errors = <<>>)

\* 172.31.0.1, the last /16 of 172.16.0.0/12, is refused as private
C11_Witness ==
  /\ ValidIPv4Call /\ ~opts.allowPrivate /\ opts.version = "both"
  /\ Literal4 = Dotted(<<"1", "7", "2">>, <<"3", "1">>, <<"0">>, <<"1">>)
  /\ PrivateRecorded /\ ~result.success

\* the name the error taxonomy gives to a code of ErrorCode
Taxonomy(code) ==
  CASE code = "TYPE_ERROR" -> "TypeMismatch"
    [] code \in {"STRING_TOO_LONG", "STRING_TOO_SHORT", "ARRAY_TOO_LONG"} ->
         "LengthViolation"
    [] code = "PATTERN_MISMATCH" -> "PatternMismatch"
    [] code = "SECURITY_VIOLATION" -> "SecurityViolation"
    [] code \in {"INVALID_STRING_FORMAT", "INVALID_JSON"} -> "InvalidFormat"
    [] code = "UNKNOWN_ERROR" -> "UnknownError"
    [] OTHER -> code

Kinds(r) == {Taxonomy(c) : c \in Codes(r)}

\* validateIp has returned on a string without CIDR suffix that is not a
\* literal of the requested version
InvalidLiteralCall ==
  /\ Returned /\ op = "validateIp" /\ input.t = "string"
  /\ ~AnyChar(Literal4, {"/"})
  /\ CASE opts.version = "v4" -> ~validateIPv4(Literal4, opts.strict)
       [] opts.version = "v6" -> ~validateIPv6(Literal4, opts.strict)
       [] OTHER -> /\ ~validateIPv4(Literal4, opts.strict)
                   /\ ~validateIPv6(Literal4, opts.strict)

\* C12: a string that is not a valid IP literal for the requested version
\* (300.1.1.1 with default options) fails with an InvalidFormat error.
C12_InvalidLiteralFormat ==
  InvalidLiteralCall => (~result.success /\ "InvalidFormat" \in Kinds(result))

\* the value of a hexadecimal digit
HexVal(c) ==
  CASE c \in {"a", "A"} -> 10 [] c \in {"b", "B"} -> 11 [] c \in {"c", "C"} -> 12
    [] c \in {"d", "D"} -> 13 [] c \in {"e", "E"} -> 14 [] c \in {"f", "F"} -> 15
    [] OTHER -> DigitVal(c)

RECURSIVE ParseHex(_)
ParseHex(g) ==
  IF g = <<>> THEN 0
  ELSE ParseHex(SubSeq(g, 1, Len(g) - 1)) * 16 + HexVal(g[Len(g)])

\* the first sixteen bits of the IPv6 literal the caller passed
FirstGroup == ParseHex(Split(Literal4, ":")[1])

InMulticast6 == FirstGroup \div 256 = 255
InUniqueLocal6 == FirstGroup \div 512 = 126
InLinkLocal6 == FirstGroup \div 64 = 1018

\* validateIp has returned on a string that is a valid IPv6 literal
ValidIPv6Call ==
  /\ Returned /\ op = "validateIp" /\ input.t = "string"
  /\ validateIPv6(Literal4, opts.strict)

\* C13: every valid IPv6 address of ff00::/8 is rejected with
\* allowMulticast=false, and every one of fc00::/7 or fe80::/10 is rejected
\* with allowPrivate=false: the whole prefix range, not only the addresses
\* whose first group is ff00, fc00, fd00 or fe80.
C13_IPv6RangesCovered ==
  ValidIPv6Call =>
    /\ (InMulticast6 /\ ~opts.allowMulticast) => ~result.success
    /\ ((InUniqueLocal6 \/ InLinkLocal6) /\ ~opts.allowPrivate)
         => ~result.success

\* the address validateEmail works on, when it has exactly one @
Address == ToLowerCase(Trim(input.s))

EmailCall ==
  /\ Returned /\ op = "validateEmail" /\ input.t = "string"
  /\ CountChar(Address, "@") = 1

\* consecutive dots, or a dot at either end
DotFault(part) ==
  \/ \E i \in 1..(Len(part) - 1) : part[i] = "." /\ part[i + 1] = "."
  \/ (Len(part) > 0 /\ (part[1] = "." \/ part[Len(part)] = "."))

\* the domain ends with a dot followed by two or more letters
HasAlphaTld(domain) ==
  \E k \in 1..Len(domain) :
     /\ domain[k] = "."
     /\ Len(domain) - k >= 2
     /\ \A j \in (k + 1)..Len(domain) : domain[j] \in LetterChars

\* C14: an address with consecutive dots or a leading or trailing dot in
\* its local part or domain fails in strict and in non-strict mode; in
\* strict mode an address whose domain lacks a dot followed by an
\* alphabetic TLD of two or more letters fails.
C14_EmailDotsAndDomainShape ==
  EmailCall =>
    /\ (DotFault(LocalPart(Address)) \/ DotFault(Domain(Address)))
         => ~result.success
    /\ (opts.strict /\ ~HasAlphaTld(Domain(Address))) => ~result.success

\* a@a..aa in strict mode: only the consecutive-dots check refuses it
C14_Witness ==
  /\ EmailCall /\ opts.strict
  /\ Domain(Address) = <<"a", ".", ".", "a", "a">>
  /\ ~DotFault(LocalPart(Address))
  /\ FailedChecks(result) = {"domainDots"}

\* a batch is under way or has returned
BatchCall == op = "validateBatch"

\* ceil(n / m)
CeilDiv(n, m) == (n + m - 1) \div m

\* the positions of window k of n items cut by m
WindowOf(k, n, m) ==
  [j \in 1..((IF k * m < n THEN k * m ELSE n) - (k - 1) * m) |->
     (k - 1) * m + j]

\* the windows are the consecutive slices of maxConcurrency positions, and
\* the validator calls that have not settled are calls of the current
\* window, at most maxConcurrency of them
C15_Windows ==
  /\ CreateBatches(7, 0, 3) = <<<<1, 2, 3>>, <<4, 5, 6>>, <<7>>>>
  /\ BatchCall =>
       LET n == Len(batch.values)
           m == batch.o.maxConcurrency
       IN /\ Len(batch.batches) = CeilDiv(n, m)
          /\ \A k \in 1..Len(batch.batches) :
               batch.batches[k] = WindowOf(k, n, m)
          /\ Cardinality(batch.pending) <= m
          /\ batch.pending # {} =>
               batch.pending \subseteq SeqToSet(batch.batches[batch.k])
          /\ Len(batch.invoked) <= batch.k * m

\* validator calls start a whole window at a time, and only when no call
\* of the window before is unsettled
C15_Start ==
  Len(batch'.invoked) > Len(batch.invoked) =>
    /\ batch.pending = {}
    /\ batch'.k = batch.k + 1
    /\ batch'.invoked = batch.invoked \o batch'.batches[batch'.k]

\* C15: validateBatch cuts the input into ceil(n / maxConcurrency)
\* consecutive windows of maxConcurrency items (7 items by 3 give 3, 3, 1);
\* at most maxConcurrency validator calls are in flight at any moment, and
\* no call of window k+1 starts before every call of window k has settled.
C15_WindowedConcurrency == []C15_Windows /\ [][C15_Start]_vars

\* the second window of three items cut by two is in flight, the first
\* window having delivered its two entries
C15_Witness ==
  /\ BatchCall /\ batch.o.maxConcurrency = 2 /\ Len(batch.values) = 3
  /\ batch.k = 2 /\ batch.pending = {3} /\ Len(batch.results) = 2
  /\ batch.timer = "armed"

\* validateBatch has returned without its timer having fired
BatchReturnedInTime ==
  pc = "done" /\ op = "validateBatch" /\ batch.timer = "cleared"

\* the windows holding an item the validator refuses
FailingWindows ==
  {k \in 1..Len(batch.batches) :
     \E j \in 1..Len(batch.batches[k]) :
        ~BatchEntry(batch.values[batch.batches[k][j]]).success}

\* the last position of the first failing window, or of the input
StopPosition ==
  IF FailingWindows = {} THEN Len(batch.values)
  ELSE LET k == CHOOSE x \in FailingWindows : \A y \in FailingWindows : x <= y
       IN batch.batches[k][Len(batch.batches[k])]

\* C16: with continueOnError=false and no timeout, results holds the
\* entries of every window up to and including the first one with a failed
\* result, that window in full, and the validator is called on no item of
\* a later window.
C16_StopAfterFailingWindow ==
  (BatchReturnedInTime /\ ~batch.o.continueOnError) =>
    /\ Len(batch.results) = StopPosition
    /\ \A i \in 1..StopPosition :
         batch.results[i] = BatchEntry(batch.values[i])
    /\ batch.invoked = [i \in 1..StopPosition |-> i]

\* three items cut by two: the first item fails, the second one of the same
\* window has its entry, the third one is never validated
C16_Witness ==
  /\ BatchReturnedInTime /\ ~batch.o.continueOnError
  /\ batch.o.maxConcurrency = 2 /\ Len(batch.values) = 3
  /\ ~batch.results[1].success /\ batch.results[2].success
  /\ Len(batch.results) = 2 /\ batch.invoked = <<1, 2>>

\* validateBatch has returned from its catch block, the timer having fired
BatchTimedOut == pc = "done" /\ op = "validateBatch" /\ batch.timer = "fired"

\* the entry was pushed by the catch block
Synthesized(r) == "Batch validation timeout" \in Messages(r)

\* C17: when the shared timeout expires, results has exactly one entry per
\* input position, in input order: the entries already produced, then a
\* synthesized failure for every position not yet produced, the one at
\* position p carrying data equal to values[p].
C17_TimeoutAlignment ==
  BatchTimedOut =>
    /\ Len(batch.results) = Len(batch.values)
    /\ \A p \in 1..Len(batch.results) :
         Synthesized(batch.results[p]) =>
           (~batch.results[p].success
            /\ batch.results[p].data = batch.values[p].v)

\* C18: with continueOnError=true and no timeout, results has the length
\* of the input and results[i] is the outcome of the validator on
\* values[i], whatever order the calls of a window settle in; the summary
\* has total = passed + failed = the length of results.
C18_AlignedResults ==
  (BatchReturnedInTime /\ batch.o.continueOnError) =>
    /\ Len(batch.results) = Len(batch.values)
    /\ \A i \in 1..Len(batch.values) :
         batch.results[i] = BatchEntry(batch.values[i])
    /\ batch.summary.total = Len(batch.results)
    /\ batch.summary.total = batch.summary.passed + batch.summary.failed

\* a window of two slow calls, the second settling first, the two entries
\* being different
C18_Witness ==
  /\ BatchReturnedInTime /\ batch.o.continueOnError
  /\ Len(batch.values) = 2 /\ batch.settled = <<2, 1>>
  /\ batch.results[1].success /\ ~batch.results[2].success
  /\ batch.summary = [total |-> 2, passed |-> 1, failed |-> 1]

\* C19: when the timer of the timeout wrapper expires before the wrapped
\* validation has completed, the caller receives a failed result whose
\* error code is Timeout.  validateTextSync and validateJsonSync run to
\* completion inside the call that arms the timer, so the timer can only
\* win against validateBatch: the property is about the entries its catch
\* block synthesizes.
C19_TimeoutCode ==
  BatchTimedOut =>
    \A p \in 1..Len(batch.results) :
       Synthesized(batch.results[p]) =>
         (~batch.results[p].success /\ "Timeout" \in Kinds(batch.results[p]))

\* C20: whatever validateJson calls have been made with useCache, one after
\* the other or overlapping, every entry the validation cache holds is a
\* successful result; a failed result is never stored.
C20_OnlySuccessCached ==
  \A i \in 1..Len(cache) : cache[i].result.success

\* a failed call made with useCache has returned after its await, and the
\* cache holds the result of another call
C20_Witness ==
  /\ pc = "done"
  /\ outcome = "returned"
  /\ opts.useCache
  /\ ~result.success
  /\ awaiting = <<>>
  /\ cache # EmptyCache
  /\ \A i \in 1..Len(cache) : cache[i].result # result

\* the last promise to settle was a returned validateJson call made with
\* useCache and enableMetrics, no call is suspended, and the metrics have
\* not been reset since
CachedCallReturned ==
  /\ pc = "done"
  /\ outcome = "returned"
  /\ awaiting = <<>>
  /\ opts.useCache
  /\ opts.enableMetrics
  /\ metrics.validateJson.count >= 1

\* the step in which the caller makes the very same call again
RepeatedCall ==
  /\ CachedCallReturned
  /\ Len(awaiting') = 1
  /\ awaiting'[1].value = input
  /\ awaiting'[1].o = opts

\* the repeated call is served from the cache with the result of the first
ServedFromCache ==
  /\ awaiting'[1].kind = "cached"
  /\ awaiting'[1].result = result

\* a settling promise meters the call exactly when the call was computed
MeteredOnce ==
  (awaiting # <<>> /\ awaiting' = Tail(awaiting) /\ Head(awaiting).o.enableMetrics)
    => /\ result' = Head(awaiting).result
       /\ metrics'.validateJson.count =
            metrics.validateJson.count
            + (IF Head(awaiting).kind = "computed" THEN 1 ELSE 0)

\* C21 as stated: for every input and options, a validateJson call repeated
\* with identical input and options (useCache and metrics on) returns a
\* result equal to the first, and only the first of the two is metered.
C21_RepeatMeteredOnceAnyInput ==
  [][(RepeatedCall => ServedFromCache) /\ MeteredOnce]_vars

\* C21: when the first call has returned a successful result and the same
\* call is made again with identical input and options (useCache and
\* metrics on), the second call returns a result equal to the first and is
\* not metered: of the two, only the computed one grows the metrics count,
\* by exactly one.
C21_RepeatMeteredOnce ==
  [][((RepeatedCall /\ result.success) => ServedFromCache) /\ MeteredOnce]_vars

\* the same successful call has been made a second time after the first
\* returned; it waits to be delivered from the cache and one call is metered
C21_Witness ==
  /\ pc = "idle"
  /\ outcome = "returned"
  /\ result.success
  /\ opts.useCache /\ opts.enableMetrics
  /\ metrics.validateJson.count = 1
  /\ Len(awaiting) = 1
  /\ awaiting[1].kind = "cached"
  /\ awaiting[1].value = input
  /\ awaiting[1].o = opts
  /\ awaiting[1].result = result

\* the stages of validateTextSync in the order of the claim, and the
\* "return result" that ends a full run
TextStages ==
  <<"type", "maxLength", "trim", "normalize", "empty", "minLength",
    "maxLines", "encoding", "alphanumeric", "allowedCharacters",
    "forbiddenPatterns", "xssPatterns", "uriScheme", "sql", "ldap",
    "command", "control", "nullByte", "end">>

PatternStages ==
  {"encoding", "alphanumeric", "allowedCharacters", "forbiddenPatterns",
   "xssPatterns", "sql", "ldap", "command", "control"}

StageIndex(check) == CHOOSE k \in 1..Len(TextStages) : TextStages[k] = check

\* the stage that pushes a given error or warning
StageOfError(e) ==
  CASE e.message = "Expected string" -> "type"
    [] e.message = "Text exceeds maximum length" -> "maxLength"
    [] e.message = "Text cannot be empty" -> "empty"
    [] e.message = "Text must be at least minLength characters long" -> "minLength"
    [] e.message = "Text cannot exceed maxLines lines" -> "maxLines"
    [] e.message = "Text contains non-ASCII characters" -> "encoding"
    [] e.message = "Text must contain only alphanumeric characters and spaces"
         -> "alphanumeric"
    [] e.message = "Text contains disallowed characters" -> "allowedCharacters"
    [] e.message = "Text contains forbidden pattern" -> "forbiddenPatterns"
    [] e.message = "Text contains potentially malicious content (XSS)"
         -> "xssPatterns"
    [] e.message = "Text contains dangerous URI schemes" -> "uriScheme"
    [] e.message = "Text contains LDAP injection patterns" -> "ldap"
    [] e.message = "Text contains command injection patterns" -> "command"
    [] e.message = "Text contains null bytes" -> "nullByte"
    [] OTHER -> "none"

StageOfWarning(w) ==
  CASE w = "Whitespace trimmed from text" -> "trim"
    [] w = "Unicode characters normalized" -> "normalize"
    [] w = "Text contains SQL-like patterns" -> "sql"
    [] w = "Text contains control characters" -> "control"
    [] OTHER -> "none"

\* the stages named by seq follow one another in the order of TextStages
InStageOrder(seq) ==
  /\ \A k \in 1..Len(seq) : \E j \in 1..Len(TextStages) : TextStages[j] = seq[k]
  /\ \A k \in 1..(Len(seq) - 1) : StageIndex(seq[k]) < StageIndex(seq[k + 1])

FailedInOrder(r) ==
  LET failed == SelectSeq(r.ran, LAMBDA x : x.failed)
  IN [k \in 1..Len(failed) |-> failed[k].check]

TextStringCall == Returned /\ op = "validateText" /\ input.t = "string"

\* C22: for a string that passes the type and max-length checks,
\* validateTextSync runs its stages in the fixed order trim, normalize,
\* empty, minLength, maxLines, encoding, alphanumeric, allowedCharacters,
\* forbiddenPatterns, XSS patterns, URI schemes, SQL, LDAP, command,
\* control, null byte (up to an early return), the errors and the warnings
\* of the result appear in that order, and no pattern stage runs before the
\* max-length check or after it has failed.
C22_TextStageOrder ==
  TextStringCall =>
    /\ Len(result.ran) >= 2
    /\ result.ran[1].check = "type" /\ result.ran[2].check = "maxLength"
    /\ \A k \in 1..Len(result.ran) :
         result.ran[k].check \in PatternStages => k > 2
    /\ result.ran[2].failed => Len(result.ran) = 2
    /\ ~result.ran[2].failed =>
         /\ \A k \in 1..Len(result.ran) : result.ran[k].check = TextStages[k]
         /\ \/ Len(result.ran) = Len(TextStages)
            \/ result.ran[Len(result.ran)] = [check |-> "empty", failed |-> TRUE]
         /\ FailedInOrder(result) =
              [k \in 1..Len(result.errors) |-> StageOfError(result.errors[k])]
         /\ InStageOrder([k \in 1..Len(result.warnings) |->
                            StageOfWarning(result.warnings[k])])

\* a string has run through every stage, and two stages have pushed errors
\* and two have pushed warnings
C22_Witness ==
  /\ TextStringCall
  /\ Len(result.ran) = Len(TextStages)
  /\ Len(result.errors) >= 2
  /\ Len(result.warnings) >= 2
  /\ StageOfError(result.errors[1]) = "forbiddenPatterns"
  /\ StageOfError(result.errors[2]) = "xssPatterns"

\* validateObject has returned after running the prototype-pollution guard
ScanCall ==
  /\ Returned /\ op = "validateObject"
  /\ IsObject(input)
  /\ opts.preventPrototypePollution
  /\ "pollution" \in Checks(result)

\* the calls the scan of the validated graph makes on objects
ScanTrace == hasDangerousPropertiesVisit(heap, input, {}).trace

\* the objects the scan expanded (marked visited and looked into), in order
Expanded(trace) ==
  LET first == SelectSeq(trace, LAMBDA x : ~x.revisit)
  IN [k \in 1..Len(first) |-> first[k].node]

ObjectValued(h, id) ==
  Cardinality({j \in 1..Len(h[id].vals) : IsObject(h[id].vals[j])})

RECURSIVE SumObjectValued(_, _)
SumObjectValued(h, ids) ==
  IF ids = <<>> THEN 0
  ELSE ObjectValued(h, Head(ids)) + SumObjectValued(h, Tail(ids))

\* C23: the prototype-pollution scan terminates on every finite object
\* graph, cyclic ones included: no object is expanded twice, a call on an
\* object already visited is answered at once and descends nowhere, so the
\* scan makes at most one call per property of an expanded object.
C23_ScanExpandsOnce ==
  ScanCall =>
    /\ \A j, k \in 1..Len(Expanded(ScanTrace)) :
         Expanded(ScanTrace)[j] = Expanded(ScanTrace)[k] => j = k
    /\ Len(Expanded(ScanTrace)) <= Len(heap)
    /\ \A k \in 1..Len(ScanTrace) :
         ScanTrace[k].revisit =>
           \E j \in 1..(k - 1) :
             ~ScanTrace[j].revisit /\ ScanTrace[j].node = ScanTrace[k].node
    /\ Len(ScanTrace) <= 1 + SumObjectValued(heap, Expanded(ScanTrace))

\* the scan of a cyclic graph has met an object it had already visited and
\* has returned without finding a dangerous name
C23_Witness ==
  /\ ScanCall
  /\ ~hasDangerousProperties(heap, input)
  /\ \E k \in 1..Len(ScanTrace) : ScanTrace[k].revisit /\ ScanTrace[k].node = 1
  /\ Len(Expanded(ScanTrace)) = MaxNodes

\* what a caller sees of a result
Seen(r) ==
  [success |-> r.success, errors |-> r.errors, warnings |-> r.warnings,
   data |-> r.data]

\* the step in which the text validator is called a second time
TextCalledAgain ==
  /\ pc = "done" /\ pc' = "done"
  /\ op = "validateText" /\ op' = "validateText"
  /\ input.t = "string"

\* C24: validateTextSync called twice in a row with the same value and the
\* very same options record (the same pattern objects, patterns that keep
\* a match position between uses included) returns equal results.
C24_SameResultAgain ==
  [][TextCalledAgain => Seen(result') = Seen(result)]_vars

\* a validateJson call made with useCache has returned a result
CachedJsonReturned ==
  /\ pc = "done" /\ outcome = "returned"
  /\ op = "validateJson"
  /\ opts.useCache

\* what the same call returns without the cache
Uncached ==
  validateJsonSync(IF IsObject(input) THEN CacheHeap ELSE NoHeap, input,
                   [opts EXCEPT !.useCache = FALSE])

\* C25: caching is transparent: in every sequence of validateJson calls, a
\* call made with useCache returns the success, errors and data that the
\* same call returns without the cache; a cache hit never hands an input
\* the stored result of another input.
C25_CacheTransparent ==
  CachedJsonReturned =>
    /\ result.success = Uncached.success
    /\ result.errors = Uncached.errors
    /\ result.data = Uncached.data

\* C26: once the batch timeout has fired and validateBatch has returned,
\* the batch does no further work: no validator is invoked any more and
\* nothing is appended to the returned results, whose length stays the
\* number of inputs.
C26_NoWorkAfterTimeout ==
  [][(BatchTimedOut /\ batch'.timer = "fired") =>
       /\ batch'.invoked = batch.invoked
       /\ batch'.results = batch.results
       /\ Len(batch'.results) = Len(batch.values)]_vars

\* validateBatch has been called and has not returned
BatchUnderWay == op = "validateBatch" /\ pc # "done"

\* C27: validateBatch terminates: for every finite input and every integer
\* maxConcurrency, 0 and negative values included, the creation of the
\* windows finishes and the returned promise settles, provided every
\* validator call settles.
C27_BatchTerminates == BatchUnderWay ~> (pc = "done")

GraphHasDangerousKey(h, v) ==
  /\ IsObject(v)
  /\ \E id \in Reachable(h, {v.n}) :
       \E k \in 1..Len(h[id].keys) : h[id].keys[k] \in DANGEROUS_PROPERTIES

PollutionReported ==
  "Object contains dangerous properties that could lead to prototype pollution"
    \in Messages(result)

\* C29: the prototype-pollution scan is exact on finite graphs, shared and
\* cyclic ones included: hasDangerousProperties answers true exactly when
\* some object reachable from the value has a denylisted own key, and the
\* guard of validateObject reports exactly those graphs.
C29_ScanExact ==
  /\ (Returned /\ op = "validateObject" /\ IsObject(input)) =>
       (hasDangerousProperties(heap, input)
          <=> GraphHasDangerousKey(heap, input))
  /\ ScanCall => (PollutionReported <=> GraphHasDangerousKey(heap, input))

\* the scan met an object a second time and then found a denylisted key
\* below a root that has none itself
C29_Witness ==
  /\ ScanCall
  /\ PollutionReported
  /\ \A k \in 1..Len(heap[input.n].keys) :
       heap[input.n].keys[k] \notin DANGEROUS_PROPERTIES
  /\ \E k \in 1..Len(ScanTrace) : ScanTrace[k].revisit

\* C30: with preventPrototypePollution = true validateObject never accepts
\* a value whose graph contains a denylisted property name, whatever
\* allowNull and allowArray are: an array accepted under allowArray = true
\* is scanned as well.
C30_GuardCoversEveryShape ==
  (/\ Returned /\ op = "validateObject"
   /\ opts.preventPrototypePollution
   /\ GraphHasDangerousKey(heap, input)) => ~result.success

====
